---- MODULE Spec2Model ----
(***************************************************************************)
(* JEPCO grid-stability pipeline: the plan narrator (ClaudeExplainer,      *)
(* PlanEnhancer), the bulk operations of the forecasting, risk and         *)
(* planning stages, the RiskAssessment record and the risk-score formula,  *)
(* the risk scorer's components, the load forecaster's data check and its  *)
(* hourly predictions, the mitigation simulator's plan generation, and the *)
(* approval, execution and work-order requests on a plan.                  *)
(*                                                                         *)
(* Numbers: scores, confidences and plan quantities are integers in        *)
(* thousandths (0.75 is 750); load percentages are integers in hundredths  *)
(* of a percent (90% is 9000); the unrounded risk formula is computed in   *)
(* millionths.  A string is known by its length and its origin.            *)
(***************************************************************************)
EXTENDS Integers, Sequences, FiniteSets, TLC

VARIABLES
    \* ---- stored entities
    plans,          \* MitigationPlan rows: plan id -> record
    assessments,    \* RiskAssessment rows: sequence of records
    forecasts,      \* LoadForecast rows referenced by the plans' assessments
    \* ---- PlanEnhancer.enhance_plan
    max_retries,    \* PlanEnhancer.max_retries
    enabled,        \* ClaudeExplainer.enabled
    enh_pc,         \* "idle" | "loop" | "done"
    enh_plan,       \* id of the plan being enhanced
    attempt,        \* loop variable of enhance_plan
    callLog,        \* result of each generate_action_plan call, in order
    apiCalls,       \* number of client.messages.create calls
    outcome,        \* "NONE" | "ENHANCED" | "FALLBACK_USED" | "UNCHANGED" | "RAISED"
    accepted,       \* the parsed backend output that validation accepted
    runs,           \* enhance_plan calls started so far
    \* ---- bulk operations
    bulk_op,        \* which bulk operation runs
    units,          \* the input collection
    behaviour,      \* what the per-unit computation does for each position
    bulk_pc,        \* "run" | "returned"
    idx,            \* position of the next unit
    successful,     \* the successful list
    failed,         \* the failed list
    visits,         \* how often each position was processed
    result,         \* the returned summary
    stored,         \* rows the bulk operation has saved
    \* ---- risk formula
    risk_pc,        \* "input" | "scored"
    peak_pct,       \* forecast.peak_predicted_pct, hundredths of a percent
    thermal_score,  \* thermal component, thousandths
    cascading_score,\* cascading component, thousandths
    overload_score, \* overload component, millionths
    total_score,    \* stored risk_score, thousandths
    \* ---- RiskScorer.score_transformer on telemetry and topology
    transformer,    \* the unit: age, cooling_type, rated_kw, max_load_pct
    forecast,       \* the unit's LoadForecast: predictions, peak_predicted_pct, peak_predicted_kw
    latest_temp,    \* most recent TransformerLoad with temp_c not null: [has, temp_c]
    links,          \* TopologyLink rows leaving the unit, in query order
    components,     \* overload_score, thermal_score, cascading_score of the last call
    score_result,   \* "none" | "ok" | "ValueError"
    \* ---- LoadForecaster.forecast and the view that saves its result
    readings,       \* TransformerLoad rows: how many per unit and age in days
    lookback_days,  \* LoadForecaster.lookback_days
    fc_unit,        \* the transformer handed to forecast
    fc_env,         \* what the call finds: the clock, the hourly means, the mean temperature
    ingested,       \* readings added since the start
    fc_runs,        \* forecast calls made
    fc_result,      \* "none" | "ok" | "ValueError"
    fc_returned,    \* the LoadForecast the last call returned, if any
    saved_forecasts,\* LoadForecast rows saved by the view
    \* ---- MitigationSimulator.generate_plans and the view that saves its result
    safety_margin,  \* self.safety_margin of the simulator, in tenths
    max_plans,      \* the max_plans argument
    plan_result,    \* "none" | "ok" | "ValueError"
    plan_error,     \* the message of the ValueError raised, "" if none
    candidate_plans,\* the candidates in link-iteration order, before ranking
    returned_plans, \* the list generate_plans returned
    saved_plans,    \* MitigationPlan rows saved by the view
    \* ---- plan approval and work orders
    work_orders,    \* WorkOrder rows in order of creation
    wo_pending,     \* per request thread: a WorkOrder.save between numbering and insert
    year,           \* timezone.now().year
    response        \* the last request answered: the view, the row it named, the status code

narratorVars == <<plans, forecasts, max_retries, enabled, enh_pc, enh_plan, attempt,
                  callLog, apiCalls, outcome, accepted, runs>>
bulkVars == <<bulk_op, units, behaviour, bulk_pc, idx, successful, failed, visits, result,
              stored>>
riskVars == <<risk_pc, peak_pct, thermal_score, cascading_score, overload_score, total_score>>
scorerVars == <<transformer, forecast, latest_temp, links, components, score_result>>
forecasterVars == <<readings, lookback_days, fc_unit, fc_env, ingested, fc_runs, fc_result, fc_returned,
                    saved_forecasts>>
plannerVars == <<safety_margin, max_plans, plan_result, plan_error, candidate_plans, returned_plans, saved_plans>>
opsVars == <<work_orders, wo_pending, year, response>>
stageVars == <<scorerVars, forecasterVars, plannerVars, opsVars>>
vars == <<plans, assessments, forecasts, max_retries, enabled, enh_pc, enh_plan, attempt,
          callLog, apiCalls, outcome, accepted, runs,
          bulk_op, units, behaviour, bulk_pc, idx, successful, failed, visits, result, stored,
          risk_pc, peak_pct, thermal_score, cascading_score, overload_score, total_score,
          transformer, forecast, latest_temp, links, components, score_result,
          readings, lookback_days, fc_unit, fc_env, ingested, fc_runs, fc_result, fc_returned,
          saved_forecasts,
          safety_margin, max_plans, plan_result, plan_error, candidate_plans, returned_plans,
          saved_plans,
          work_orders, wo_pending, year, response>>

\* ------------------------------------------------------------------ bounds
MaxRetries == 2
MaxEnhanceCalls == 1
MaxUnits == 3
MaxPlansPerUnit == 2
MaxAssessments == 2
MaxDelta == 2
PctMin == 8950
PctMax == 12050
MaxLinks == 3
MaxIngest == 3
MaxForecastRuns == 2
MaxHorizon == 4
MaxWorkOrders == 1
MaxConcurrentOrders == 2
MaxYear == 2027

\* ------------------------------------------------------------ JSON values
EmptyDict == [k \in {} |-> 0]

JStr(n, s) == [kind |-> "str", len |-> n, num |-> 0, isnum |-> FALSE, elems |-> <<>>, src |-> s]
JNumStr(v) == [kind |-> "str", len |-> 3, num |-> v, isnum |-> TRUE, elems |-> <<>>, src |-> "llm"]
JNum(v) == [kind |-> "num", len |-> 0, num |-> v, isnum |-> TRUE, elems |-> <<>>, src |-> ""]
JBool(b) == [kind |-> "bool", len |-> 0, num |-> IF b THEN 1000 ELSE 0, isnum |-> TRUE, elems |-> <<>>, src |-> ""]
JNull == [kind |-> "null", len |-> 0, num |-> 0, isnum |-> FALSE, elems |-> <<>>, src |-> ""]
JList(es) == [kind |-> "list", len |-> Len(es), num |-> 0, isnum |-> FALSE, elems |-> es, src |-> ""]

\* dict.get(key) without the default: a missing key reads as None.
Get_NoDefault(d, k, default) == IF k \in DOMAIN d THEN d[k] ELSE JNull

\* dict.get(key, default)
Get(d, k, default) == IF k \in DOMAIN d THEN d[k] ELSE default

Abs(x) == IF x < 0 THEN -x ELSE x

RECURSIVE NumDigits(_)
NumDigits(n) == IF n < 10 THEN 1 ELSE 1 + NumDigits(n \div 10)

Pow10(d) == CASE d = 0 -> 1 [] d = 1 -> 10 [] d = 2 -> 100 [] OTHER -> 1000

\* len(f"{x:.<d>f}") for x given in thousandths: round half to even at d decimals,
\* then sign, integer digits, and the point with d decimals when d > 0.
FmtLen(x, d) ==
    LET unit == Pow10(3 - d)
        a == Abs(x)
        q == a \div unit
        r == a % unit
        rounded == IF 2 * r > unit \/ (2 * r = unit /\ q % 2 = 1) THEN q + 1 ELSE q
        intpart == rounded \div Pow10(d)
    IN  (IF x < 0 THEN 1 ELSE 0) + NumDigits(intpart) + (IF d = 0 THEN 0 ELSE d + 1)

\* A format spec ":.Nf" raises on anything that is not a number.
Formattable(v) == v.kind \in {"num", "bool"}

\* ------------------------------------------------- ClaudeExplainer (narrator)
RequiredKeys == <<"executive_summary", "operator_steps", "field_checklist",
                  "rollback_steps", "assumptions", "confidence">>

\* A template line: its fixed text plus the names it interpolates.
TemplateLine(fixed, nFrom, nTo, nSwitch, from_name, to_name, switch_name) ==
    JStr(fixed + nFrom * from_name.len + nTo * to_name.len + nSwitch * switch_name.len,
         "template")

\* generate_template_fallback that reports the placeholder confidence 0.0.
GenerateTemplateFallback_ZeroConfidence(plan_data) ==
    [raised |-> FALSE,
     value |-> [k \in {RequiredKeys[i] : i \in 1..6} |->
                  IF k = "confidence" THEN JNum(0)
                  ELSE IF k = "executive_summary" THEN JStr(218, "template")
                  ELSE JList(<<JStr(40, "template")>>)]]

GenerateTemplateFallback(plan_data) ==
    LET from_name == Get(plan_data, "from_transformer_name", JStr(6, "default"))
        to_name == Get(plan_data, "to_transformer_name", JStr(11, "default"))
        transfer_kw == Get(plan_data, "transfer_kw", JNum(0))
        switch_name == Get(plan_data, "switch_name", JStr(10, "default"))
        load_before == Get(plan_data, "load_before_pct", JNum(0))
        load_after == Get(plan_data, "load_after_pct", JNum(0))
        risk_reduction == Get(plan_data, "risk_reduction", JNum(0))
        L(fixed, nf, nt, ns) == TemplateLine(fixed, nf, nt, ns, from_name, to_name, switch_name)
        numbers == {transfer_kw, load_before, load_after, risk_reduction}
    IN  IF \E v \in numbers : ~Formattable(v)
        THEN [raised |-> TRUE, value |-> EmptyDict]
        ELSE [raised |-> FALSE,
              value |->
                ("executive_summary" :>
                    JStr(218 + from_name.len + to_name.len + switch_name.len
                           + FmtLen(load_before.num, 1) + FmtLen(transfer_kw.num, 0)
                           + FmtLen(load_after.num, 1) + FmtLen(risk_reduction.num, 3),
                         "template"))
                @@ ("operator_steps" :>
                    JList(<<L(49, 0, 0, 1), L(62, 0, 1, 0), L(57, 0, 0, 0), L(33, 0, 0, 1),
                            L(56, 1, 1, 0), L(39, 1, 0, 0), L(51, 0, 0, 0), L(36, 0, 0, 0)>>))
                @@ ("field_checklist" :>
                    JList(<<L(53, 0, 0, 0), L(54, 0, 0, 0), L(54, 0, 0, 0), L(45, 0, 0, 0),
                            L(45, 0, 0, 0), L(59, 0, 0, 0), L(35, 0, 0, 0)>>))
                @@ ("rollback_steps" :>
                    JList(<<L(66, 0, 0, 1), L(69, 0, 0, 0), L(57, 0, 1, 0), L(60, 0, 0, 0),
                            L(46, 0, 0, 0), L(59, 0, 0, 0)>>))
                @@ ("assumptions" :>
                    JList(<<L(53, 0, 0, 0), L(49, 0, 0, 0), L(48, 0, 0, 0), L(34, 0, 1, 0),
                            L(39, 0, 0, 0), L(45, 0, 0, 0)>>))
                @@ ("confidence" :> JNum(750))]

\* float(x): a number, a bool or a numeric string converts; None, a list or any
\* other string raises TypeError or ValueError.
ToFloat(v) ==
    IF v.kind \in {"num", "bool"} \/ (v.kind = "str" /\ v.isnum)
    THEN [ok |-> TRUE, num |-> v.num]
    ELSE [ok |-> FALSE, num |-> 0]

\* _validate_schema: the checks in the order of the code.  A parsed value that is
\* not a dict fails the key test (a list holds no key) or raises TypeError.
ValidateSchema(output) ==
    LET o == output.fields
        fail == [ok |-> FALSE, value |-> EmptyDict]
    IN  IF output.top # "object" THEN fail
        ELSE IF \E i \in 1..6 : RequiredKeys[i] \notin DOMAIN o THEN fail
        ELSE IF o["executive_summary"].kind # "str" THEN fail
        ELSE IF o["operator_steps"].kind # "list" THEN fail
        ELSE IF o["field_checklist"].kind # "list" THEN fail
        ELSE IF o["rollback_steps"].kind # "list" THEN fail
        ELSE IF o["assumptions"].kind # "list" THEN fail
        ELSE IF ~ToFloat(o["confidence"]).ok THEN fail
        ELSE IF ~(0 <= ToFloat(o["confidence"]).num /\ ToFloat(o["confidence"]).num <= 1000)
             THEN fail
        ELSE IF Len(o["operator_steps"].elems) = 0 THEN fail
        ELSE IF Len(o["field_checklist"].elems) = 0 THEN fail
        ELSE IF Len(o["rollback_steps"].elems) = 0 THEN fail
        ELSE IF o["executive_summary"].len < 50 THEN fail
        ELSE [ok |-> TRUE,
              value |-> [o EXCEPT !["confidence"] = JNum(ToFloat(o["confidence"]).num)]]

\* generate_action_plan that logs a validation failure but still returns the
\* parsed output, completed with the expected keys.
GenerateActionPlan_ReturnsInvalid(is_enabled, plan_data, resp) ==
    IF ~is_enabled
    THEN [ok |-> FALSE, kind |-> "disabled", called |-> FALSE, value |-> EmptyDict]
    ELSE IF resp.k = "exception"
    THEN [ok |-> FALSE, kind |-> "api_error", called |-> TRUE, value |-> EmptyDict]
    ELSE IF resp.k = "notjson"
    THEN [ok |-> FALSE, kind |-> "json_error", called |-> TRUE, value |-> EmptyDict]
    ELSE LET v == ValidateSchema(resp.json)
         IN  IF v.ok
             THEN [ok |-> TRUE, kind |-> "ok", called |-> TRUE, value |-> v.value]
             ELSE [ok |-> TRUE, kind |-> "schema_error", called |-> TRUE,
                   value |-> resp.json.fields
                             @@ [k \in {RequiredKeys[i] : i \in 1..6} |->
                                   IF k = "confidence" THEN JNum(820)
                                   ELSE IF k = "executive_summary" THEN JStr(120, "llm")
                                   ELSE JList(<<JStr(20, "llm")>>)]]

\* generate_action_plan: what one call returns or raises, given the backend's
\* behaviour resp on this call.  called: whether client.messages.create ran.
GenerateActionPlan(is_enabled, plan_data, resp) ==
    IF ~is_enabled
    THEN [ok |-> FALSE, kind |-> "disabled", called |-> FALSE, value |-> EmptyDict]
    ELSE IF resp.k = "exception"
    THEN [ok |-> FALSE, kind |-> "api_error", called |-> TRUE, value |-> EmptyDict]
    ELSE IF resp.k = "notjson"
    THEN [ok |-> FALSE, kind |-> "json_error", called |-> TRUE, value |-> EmptyDict]
    ELSE LET v == ValidateSchema(resp.json)
         IN  IF v.ok
             THEN [ok |-> TRUE, kind |-> "ok", called |-> TRUE, value |-> v.value]
             ELSE [ok |-> FALSE, kind |-> "schema_error", called |-> TRUE, value |-> EmptyDict]

\* ------------------------------------------------------- narrator inputs
PlanIds == {1, 2}

PJ_T07 ==
    ("from_transformer_name" :> JStr(4, "plan")) @@ ("to_transformer_name" :> JStr(4, "plan"))
    @@ ("switch_name" :> JStr(5, "plan")) @@ ("transfer_kw" :> JNum(114180))
    @@ ("load_before_pct" :> JNum(115370)) @@ ("load_after_pct" :> JNum(90000))
    @@ ("risk_reduction" :> JNum(558))
PJ_Zero ==
    ("from_transformer_name" :> JStr(0, "plan")) @@ ("to_transformer_name" :> JStr(0, "plan"))
    @@ ("switch_name" :> JStr(0, "plan")) @@ ("transfer_kw" :> JNum(0))
    @@ ("load_before_pct" :> JNum(0)) @@ ("load_after_pct" :> JNum(0))
    @@ ("risk_reduction" :> JNum(0))
PJ_NoNames ==
    ("transfer_kw" :> JNum(50000)) @@ ("load_before_pct" :> JNum(99960))
    @@ ("load_after_pct" :> JNum(9960)) @@ ("risk_reduction" :> JNum(-12))
PJ_NoNumbers ==
    ("from_transformer_name" :> JStr(4, "plan")) @@ ("to_transformer_name" :> JStr(12, "plan"))
    @@ ("switch_name" :> JStr(6, "plan"))
PlanJsons == {EmptyDict, PJ_T07, PJ_Zero, PJ_NoNames, PJ_NoNumbers}

\* The placeholder narrative the simulator gives a new plan.
NewPlan(plan_json, status) ==
    LET from_name == Get(plan_json, "from_transformer_name", JStr(0, "plan"))
        to_name == Get(plan_json, "to_transformer_name", JStr(0, "plan"))
        sw == Get(plan_json, "switch_name", JStr(8, "plan"))
        kw == Get(plan_json, "transfer_kw", JNum(0))
    IN  [assessment |-> 1,
         plan_json |-> plan_json,
         expected_risk_after |-> 154,
         expected_load_reduction_kw |-> kw.num,
         status |-> status,
         executive_summary |->
             JStr(22 + FmtLen(kw.num, 0) + from_name.len + to_name.len, "simulator"),
         operator_steps |->
             JList(<<JStr(25 + sw.len, "simulator"), JStr(26 + sw.len, "simulator"),
                     JStr(43, "simulator"), JStr(31 + from_name.len, "simulator")>>),
         field_checklist |->
             JList(<<JStr(16, "simulator"), JStr(34, "simulator"), JStr(34, "simulator")>>),
         rollback_steps |->
             JList(<<JStr(42 + sw.len, "simulator"), JStr(34, "simulator"),
                     JStr(37, "simulator")>>),
         assumptions |->
             JList(<<JStr(25, "simulator"), JStr(32, "simulator"), JStr(29, "simulator")>>),
         llm_confidence |-> 0,
         approved_by |-> "", approved_at |-> "", rejection_reason |-> "",
         executed_at |-> "", executed_by |-> "", execution_notes |-> ""]

\* What the backend may answer on one call.
ValidFields ==
    ("executive_summary" :> JStr(120, "llm"))
    @@ ("operator_steps" :> JList(<<JStr(30, "llm"), JStr(25, "llm")>>))
    @@ ("field_checklist" :> JList(<<JStr(20, "llm")>>))
    @@ ("rollback_steps" :> JList(<<JStr(22, "llm")>>))
    @@ ("assumptions" :> JList(<<JStr(18, "llm")>>))
    @@ ("confidence" :> JNum(820))
With(k, v) == [ValidFields EXCEPT ![k] = v]
Without(k) == [x \in (DOMAIN ValidFields) \ {k} |-> ValidFields[x]]
Obj(fields) == [top |-> "object", fields |-> fields]
ListKeys == {"operator_steps", "field_checklist", "rollback_steps", "assumptions"}

JsonOutputs ==
    {Obj(ValidFields), [top |-> "other", fields |-> EmptyDict]}
    \cup {Obj(With("confidence", c)) :
            c \in {JNum(0), JNum(1000), JNum(1001), JNum(-1), JNull, JStr(4, "llm"),
                   JBool(TRUE), JNumStr(500)}}
    \cup {Obj(With("executive_summary", v)) : v \in {JStr(50, "llm"), JStr(49, "llm"), JNum(5)}}
    \cup {Obj(With(k, JList(<<>>))) : k \in ListKeys}
    \cup {Obj(With(k, JStr(60, "llm"))) : k \in ListKeys}
    \cup {Obj(With(k, JList(<<JNum(1)>>))) : k \in ListKeys}
    \cup {Obj(Without(RequiredKeys[i])) : i \in 1..6}
    \cup {Obj(ValidFields @@ ("notes" :> JStr(5, "llm")))}

NoJson == [top |-> "none", fields |-> EmptyDict]
Responses ==
    {[k |-> "exception", json |-> NoJson], [k |-> "notjson", json |-> NoJson]}
    \cup {[k |-> "json", json |-> j] : j \in JsonOutputs}

\* ------------------------------------------------------------- PlanEnhancer
\* enhance_plan that also stores the whole bundle in plan_json.
WriteNarrative_IntoPlanJson(plan, bundle) ==
    [plan EXCEPT !.executive_summary = bundle["executive_summary"],
                 !.operator_steps = bundle["operator_steps"],
                 !.field_checklist = bundle["field_checklist"],
                 !.rollback_steps = bundle["rollback_steps"],
                 !.assumptions = bundle["assumptions"],
                 !.llm_confidence = bundle["confidence"].num,
                 !.plan_json = bundle]

\* The six assignments of enhance_plan; Decimal(str(confidence)) keeps the number.
WriteNarrative(plan, bundle) ==
    [plan EXCEPT !.executive_summary = bundle["executive_summary"],
                 !.operator_steps = bundle["operator_steps"],
                 !.field_checklist = bundle["field_checklist"],
                 !.rollback_steps = bundle["rollback_steps"],
                 !.assumptions = bundle["assumptions"],
                 !.llm_confidence = bundle["confidence"].num]

\* for attempt in range(self.max_retries + 1)
InRange(i, retries) == i < retries + 1

\* The handler comparing against the number of attempts instead of the last index.
IsLastAttempt_OffByOne(i, retries) == i = retries + 1

\* The handler giving up one attempt early.
IsLastAttempt_Early(i, retries) == i = retries - 1 \/ (retries = 0 /\ i = 0)

\* if attempt == self.max_retries
IsLastAttempt(i, retries) == i = retries

EnhanceBegin ==
    /\ enh_pc = "idle"
    /\ runs < MaxEnhanceCalls
    /\ \E p \in PlanIds :
         /\ enh_plan' = p
         /\ IF InRange(0, max_retries)
            THEN enh_pc' = "loop" /\ outcome' = "NONE"
            ELSE enh_pc' = "done" /\ outcome' = "UNCHANGED"
    /\ attempt' = 0
    /\ callLog' = <<>>
    /\ apiCalls' = 0
    /\ accepted' = NoJson
    /\ runs' = runs + 1
    /\ UNCHANGED <<stageVars, plans, assessments, forecasts, max_retries, enabled, bulkVars, riskVars>>

\* One pass of the loop body: the call, then the success branch or the handler.
EnhanceAttempt ==
    /\ enh_pc = "loop"
    /\ \E resp \in Responses :
         LET plan_data == plans[enh_plan].plan_json
             r == GenerateActionPlan(enabled, plan_data, resp)
             fb == GenerateTemplateFallback(plan_data)
         IN  /\ callLog' = Append(callLog, r.kind)
             /\ apiCalls' = apiCalls + (IF r.called THEN 1 ELSE 0)
             /\ IF r.ok
                THEN /\ plans' = [plans EXCEPT ![enh_plan] = WriteNarrative(@, r.value)]
                     /\ accepted' = resp.json
                     /\ outcome' = "ENHANCED"
                     /\ enh_pc' = "done"
                     /\ attempt' = attempt
                ELSE IF IsLastAttempt(attempt, max_retries)
                THEN /\ IF fb.raised
                        THEN plans' = plans /\ outcome' = "RAISED"
                        ELSE /\ plans' = [plans EXCEPT ![enh_plan] = WriteNarrative(@, fb.value)]
                             /\ outcome' = "FALLBACK_USED"
                     /\ accepted' = accepted
                     /\ enh_pc' = "done"
                     /\ attempt' = attempt
                ELSE /\ plans' = plans
                     /\ accepted' = accepted
                     /\ IF InRange(attempt + 1, max_retries)
                        THEN attempt' = attempt + 1 /\ enh_pc' = "loop" /\ outcome' = outcome
                        ELSE attempt' = attempt /\ enh_pc' = "done" /\ outcome' = "UNCHANGED"
    /\ UNCHANGED <<stageVars, assessments, forecasts, max_retries, enabled, enh_plan, runs,
                   bulkVars, riskVars>>

\* The caller has the plan back; the enhancer can be used again.
EnhanceReturn ==
    /\ enh_pc = "done"
    /\ enh_pc' = "idle"
    /\ UNCHANGED <<stageVars, plans, assessments, forecasts, max_retries, enabled, enh_plan, attempt,
                   callLog, apiCalls, outcome, accepted, runs, bulkVars, riskVars>>

\* ------------------------------------------------ idle values of the parts
ScorerIdle ==
    /\ transformer = [age |-> 0, cooling_type |-> "ONAN", rated_kw |-> 0, max_load_pct |-> 90]
    /\ forecast = [predictions |-> 0, peak_predicted_pct |-> 0, peak_predicted_kw |-> 0]
    /\ latest_temp = [has |-> FALSE, temp_c |-> 0]
    /\ links = <<>>
    /\ components = [overload |-> 0, thermal |-> 0, cascading |-> 0]
    /\ score_result = "none"

\* age_days is now minus the row's timestamp; a negative age is a timestamp after now.
ReadingKeys == {[unit |-> u, age_days |-> a] : u \in {1, 2}, a \in {-1, 1, 7, 9}}

NoRows == [k \in ReadingKeys |-> 0]

NoForecastReturned == [has |-> FALSE, transformer |-> 0, forecast_horizon_hours |-> 0,
                       predictions |-> <<>>, peak_predicted_kw |-> 0, peak_time |-> 0,
                       historical_records |-> 0, historical_data |-> NoRows]

\* Friday 22:00, hourly means of 150 kW with an evening peak, no temperature data.
QuietEvening == [now |-> 118, hourly |-> "evening", temps |-> [has |-> FALSE, avg |-> 0],
                 up |-> TRUE]

ForecasterIdle ==
    /\ readings = NoRows
    /\ lookback_days = 7 /\ fc_unit = 1 /\ fc_env = QuietEvening /\ ingested = 0 /\ fc_runs = 0
    /\ fc_result = "none" /\ fc_returned = NoForecastReturned /\ saved_forecasts = <<>>

\* MitigationSimulator.__init__: safety_margin=0.8
SafetyMarginTenths == 8

PlannerIdle ==
    /\ safety_margin = SafetyMarginTenths
    /\ max_plans = 3 /\ plan_result = "none" /\ plan_error = ""
    /\ candidate_plans = <<>> /\ returned_plans = <<>> /\ saved_plans = <<>>

\* Request threads that can be inside WorkOrder.save at the same time.
Creators == {1, 2}

NoPending == [pc |-> "idle", plan |-> 0, wo_number |-> <<>>]

NoResponse == [view |-> "", target |-> 0, code |-> 0]

OpsIdle ==
    /\ work_orders = <<>>
    /\ wo_pending = [c \in Creators |-> NoPending]
    /\ year = 2026
    /\ response = NoResponse

StagesIdle == ScorerIdle /\ ForecasterIdle /\ PlannerIdle /\ OpsIdle

BulkIdle ==
    /\ bulk_op = "none" /\ units = <<>> /\ behaviour = <<>> /\ bulk_pc = "returned"
    /\ idx = 1 /\ successful = <<>> /\ failed = <<>> /\ visits = <<>> /\ stored = {}
    /\ result = [total_attempted |-> 0, success_count |-> 0, failure_count |-> 0]

RiskIdle ==
    /\ risk_pc = "input" /\ peak_pct = 0 /\ thermal_score = 0 /\ cascading_score = 0
    /\ overload_score = 0 /\ total_score = 0

NarratorIdle ==
    /\ plans = [p \in PlanIds |-> NewPlan(PJ_T07, "DRAFT")]
    /\ forecasts = <<[peak_predicted_pct |-> 11537, peak_predicted_kw |-> 519170]>>
    /\ max_retries = 0 /\ enabled = FALSE /\ enh_pc = "idle" /\ enh_plan = 1
    /\ attempt = 0 /\ callLog = <<>> /\ apiCalls = 0 /\ outcome = "NONE"
    /\ accepted = NoJson /\ runs = 0

\* ------------------------------------------------- narrator specification
InitNarrator ==
    /\ \E pj \in PlanJsons :
         plans = [p \in PlanIds |->
                    IF p = 1 THEN NewPlan(pj, "DRAFT") ELSE NewPlan(PJ_T07, "APPROVED")]
    /\ assessments = <<[risk_score |-> 712, risk_level |-> "HIGH"]>>
    /\ forecasts = <<[peak_predicted_pct |-> 11537, peak_predicted_kw |-> 519170]>>
    /\ max_retries \in 0..MaxRetries
    /\ enabled \in BOOLEAN
    /\ enh_pc = "idle" /\ enh_plan = 1 /\ attempt = 0 /\ callLog = <<>> /\ apiCalls = 0
    /\ outcome = "NONE" /\ accepted = NoJson /\ runs = 0
    /\ BulkIdle
    /\ RiskIdle
    /\ StagesIdle

NextNarrator == EnhanceBegin \/ EnhanceAttempt \/ EnhanceReturn

SpecNarrator == InitNarrator /\ [][NextNarrator]_vars

NarrativeIs(plan, bundle) ==
    /\ plan.executive_summary = bundle["executive_summary"]
    /\ plan.operator_steps = bundle["operator_steps"]
    /\ plan.field_checklist = bundle["field_checklist"]
    /\ plan.rollback_steps = bundle["rollback_steps"]
    /\ plan.assumptions = bundle["assumptions"]
    /\ plan.llm_confidence = bundle["confidence"].num

AllFailed == \A k \in 1..Len(callLog) : callLog[k] # "ok"

\* C1: whenever enhance_plan has returned, it ended in exactly one of ENHANCED, with
\* the plan's narrative equal to the backend bundle that passed validation, or
\* FALLBACK_USED, with the narrative equal to the template bundle; it never ended by
\* raising or by leaving the loop without writing.
C1_TerminalOutcome ==
    enh_pc = "done" =>
        \/ /\ outcome = "ENHANCED"
           /\ accepted.top = "object"
           /\ ValidateSchema(accepted).ok
           /\ NarrativeIs(plans[enh_plan], ValidateSchema(accepted).value)
           /\ plans[enh_plan].executive_summary.src = "llm"
        \/ /\ outcome = "FALLBACK_USED"
           /\ NarrativeIs(plans[enh_plan],
                          GenerateTemplateFallback(plans[enh_plan].plan_json).value)
           /\ plans[enh_plan].executive_summary.src = "template"

C1_Witness ==
    /\ enh_pc = "done"
    /\ outcome = "FALLBACK_USED"
    /\ enabled
    /\ callLog = <<"api_error", "json_error", "schema_error">>

\* C2: at most max_retries + 1 calls are made per plan; every call but the last one
\* made has failed; the loop index never passes max_retries; and the fallback is
\* used exactly when max_retries + 1 calls were made and all of them failed.
C2_BoundedRetries ==
    /\ Len(callLog) <= max_retries + 1
    /\ apiCalls <= Len(callLog)
    /\ \A k \in 1..(Len(callLog) - 1) : callLog[k] # "ok"
    /\ enh_pc = "loop" => (attempt = Len(callLog) /\ attempt <= max_retries /\ AllFailed)
    /\ enh_pc = "done" =>
          /\ (outcome = "FALLBACK_USED") <=> (Len(callLog) = max_retries + 1 /\ AllFailed)
          /\ (outcome = "ENHANCED") <=> (callLog # <<>> /\ callLog[Len(callLog)] = "ok")

C2_Witness ==
    /\ enh_pc = "done"
    /\ max_retries = 2
    /\ callLog = <<"schema_error", "ok">>
    /\ outcome = "ENHANCED"

\* C3: when the backend is unavailable (the client is disabled, or every call
\* raised), enhance_plan ends in FALLBACK_USED with llm_confidence 0.75 and the
\* narrative of generate_template_fallback(plan_json).
C3_UnavailableFallsBack ==
    (enh_pc = "done" /\ \A k \in 1..Len(callLog) : callLog[k] \in {"disabled", "api_error"})
    =>  /\ outcome = "FALLBACK_USED"
        /\ plans[enh_plan].llm_confidence = 750
        /\ NarrativeIs(plans[enh_plan],
                       GenerateTemplateFallback(plans[enh_plan].plan_json).value)

C3_Witness ==
    /\ enh_pc = "done"
    /\ ~enabled
    /\ max_retries = 2
    /\ apiCalls = 0
    /\ outcome = "FALLBACK_USED"
    /\ plans[enh_plan].llm_confidence = 750

\* C21: a backend response that fails JSON parsing or schema validation at attempt i
\* is followed by exactly the step that follows a backend call failure at attempt
\* i: with i < max_retries the plan is left as it was and attempt i + 1 starts; with
\* i = max_retries the plan receives the template narrative and enhance_plan
\* returns.  Nothing of the rejected response reaches the plan.
C21_ValidationFailureLikeCallFailure ==
    [][(enh_pc = "loop" /\ Len(callLog') = Len(callLog) + 1
        /\ callLog'[Len(callLog')] \in {"json_error", "schema_error", "api_error"})
       => IF attempt < max_retries
          THEN /\ plans' = plans
               /\ enh_pc' = "loop"
               /\ attempt' = attempt + 1
               /\ outcome' = outcome
          ELSE /\ enh_pc' = "done"
               /\ outcome' = "FALLBACK_USED"
               /\ NarrativeIs(plans'[enh_plan],
                              GenerateTemplateFallback(plans[enh_plan].plan_json).value)
               /\ plans'[enh_plan].executive_summary.src = "template"
               /\ plans'[enh_plan].plan_json = plans[enh_plan].plan_json
               /\ \A p \in PlanIds \ {enh_plan} : plans'[p] = plans[p]]_vars

C21_Witness ==
    /\ enh_pc = "done"
    /\ max_retries = 1
    /\ callLog = <<"schema_error", "json_error">>
    /\ outcome = "FALLBACK_USED"
    /\ plans[enh_plan].executive_summary.src = "template"

StringList(v, nonEmpty) ==
    /\ v.kind = "list"
    /\ nonEmpty => Len(v.elems) > 0
    /\ \A i \in 1..Len(v.elems) : v.elems[i].kind = "str"

\* The schema as the interface states it.
ExactSchema(json) ==
    /\ json.top = "object"
    /\ DOMAIN json.fields = {RequiredKeys[i] : i \in 1..6}
    /\ json.fields["executive_summary"].kind = "str"
    /\ json.fields["executive_summary"].len >= 50
    /\ StringList(json.fields["operator_steps"], TRUE)
    /\ StringList(json.fields["field_checklist"], TRUE)
    /\ StringList(json.fields["rollback_steps"], TRUE)
    /\ StringList(json.fields["assumptions"], FALSE)
    /\ json.fields["confidence"].kind = "num"
    /\ json.fields["confidence"].num \in 0..1000

\* C4: a backend response is accepted, and written to the plan, only if it is an
\* object with exactly the six keys, a summary string of at least 50 characters,
\* non-empty string lists for steps, checklist and rollback, a string list of
\* assumptions and a numeric confidence in [0,1].
C4_AcceptedOnlyExactSchema ==
    (enh_pc = "done" /\ outcome = "ENHANCED") => ExactSchema(accepted)

\* C5: for every plan summary, generate_template_fallback does not raise and its
\* bundle has the six keys, passes _validate_schema and has confidence 0.75.
C5_FallbackValid ==
    \A p \in PlanIds :
        LET fb == GenerateTemplateFallback(plans[p].plan_json)
        IN  /\ ~fb.raised
            /\ DOMAIN fb.value = {RequiredKeys[i] : i \in 1..6}
            /\ ValidateSchema(Obj(fb.value)).ok
            /\ fb.value["executive_summary"].len >= 50
            /\ fb.value["confidence"] = JNum(750)

C5_Witness ==
    /\ enh_pc = "done"
    /\ outcome = "FALLBACK_USED"
    /\ plans[enh_plan].plan_json = EmptyDict
    /\ plans[enh_plan].executive_summary = JStr(257, "template")

FrameOf(plan) ==
    <<plan.plan_json, plan.assessment, plan.expected_risk_after,
      plan.expected_load_reduction_kw, plan.status>>

\* C6: every step of enhance_plan leaves plan_json, the assessment reference,
\* expected_risk_after, expected_load_reduction_kw and status of the plan as they
\* were, and leaves every other plan, the assessments and the forecasts unchanged.
C6_FrameKept ==
    [][ /\ \A p \in PlanIds : FrameOf(plans'[p]) = FrameOf(plans[p])
        /\ \A p \in PlanIds : (p # enh_plan') => plans'[p] = plans[p]
        /\ assessments' = assessments
        /\ forecasts' = forecasts ]_vars

C6_Witness ==
    /\ enh_pc = "done"
    /\ outcome = "ENHANCED"
    /\ plans[enh_plan].executive_summary.src = "llm"
    /\ plans[enh_plan].llm_confidence = 820
    /\ plans[enh_plan].status = "APPROVED"

\* ---------------------------------------------------------- bulk operations
UnitIds == {1, 2}

BulkOps == {[name |-> "forecast_all_transformers", save |-> TRUE],
            [name |-> "forecast_all_transformers", save |-> FALSE],
            [name |-> "score_all_transformers", save |-> TRUE],
            [name |-> "plan_all_high_risk", save |-> TRUE]}

\* What the computation for one unit does: it returns n items, or it raises before
\* producing anything ("compute": the forecast, score or plan generation; "lookup":
\* no forecast for the unit), or saving item failAt raises ("save").
Behaviours(op) ==
    IF op.name = "plan_all_high_risk"
    THEN {[kind |-> "ok", n |-> n, failAt |-> 0] : n \in 1..MaxPlansPerUnit}
         \cup {[kind |-> "compute", n |-> 0, failAt |-> 0]}
         \cup {[kind |-> "save", n |-> n, failAt |-> f] :
                 n \in 1..MaxPlansPerUnit, f \in 1..MaxPlansPerUnit}
    ELSE IF op.name = "score_all_transformers"
    THEN {[kind |-> k, n |-> 1, failAt |-> 0] : k \in {"ok", "lookup", "compute"}}
    ELSE {[kind |-> "ok", n |-> 1, failAt |-> 0], [kind |-> "compute", n |-> 0, failAt |-> 0],
          [kind |-> "save", n |-> 1, failAt |-> 1]}

SeqsUpTo(S, n) == UNION {[1..k -> S] : k \in 0..n}

\* Whether the body of the try block raises for this unit.
BodyRaises(op, b) ==
    \/ b.kind \in {"compute", "lookup"}
    \/ b.kind = "save" /\ op.save /\ b.failAt <= b.n

\* The rows saved by the body before it returns or raises.
RowsSaved(op, b, pos) ==
    IF ~op.save \/ b.kind \in {"compute", "lookup"} THEN {}
    ELSE IF b.kind = "save" /\ b.failAt <= b.n
    THEN {[pos |-> pos, item |-> k] : k \in 1..(b.failAt - 1)}
    ELSE {[pos |-> pos, item |-> k] : k \in 1..b.n}

\* A loop whose handler lets the exception end the iteration over the units.
NextUnit_AbortOnFailure(i, raised, n) == IF raised THEN n + 1 ELSE i + 1

\* The for loop goes on to the next unit whether or not the body raised.
NextUnit(i, raised, n) == i + 1

\* except Exception as e: failed.append({unit, 'error': str(e)})
RecordFailure(failedList, unit, pos, error) ==
    Append(failedList, [unit |-> unit, pos |-> pos, error |-> error])

\* One iteration of the loop of a bulk operation: the try body for the unit at idx,
\* then the append to successful or, in the handler, to failed.
BulkStep(opname) ==
    /\ bulk_pc = "run"
    /\ bulk_op.name = opname
    /\ idx <= Len(units)
    /\ LET b == behaviour[idx]
           raised == BodyRaises(bulk_op, b)
       IN  /\ stored' = stored \cup RowsSaved(bulk_op, b, idx)
           /\ IF raised
              THEN /\ failed' = RecordFailure(failed, units[idx], idx, b.kind)
                   /\ successful' = successful
              ELSE /\ successful' = Append(successful, [unit |-> units[idx], pos |-> idx,
                                                        items |-> b.n])
                   /\ failed' = failed
           /\ visits' = [visits EXCEPT ![idx] = @ + 1]
           /\ idx' = NextUnit(idx, raised, Len(units))
    /\ UNCHANGED <<stageVars, bulk_op, units, behaviour, bulk_pc, result, assessments, narratorVars,
                   riskVars>>

ForecastAllStep == BulkStep("forecast_all_transformers")
ScoreAllStep == BulkStep("score_all_transformers")
PlanAllStep == BulkStep("plan_all_high_risk")

\* The return statement: the two lists and the three counts.
BulkReturn ==
    /\ bulk_pc = "run"
    /\ idx > Len(units)
    /\ result' = [total_attempted |-> Len(units),
                  success_count |-> Len(successful),
                  failure_count |-> Len(failed)]
    /\ bulk_pc' = "returned"
    /\ UNCHANGED <<stageVars, bulk_op, units, behaviour, idx, successful, failed, visits, stored,
                   assessments, narratorVars, riskVars>>

InitBulk ==
    /\ bulk_op \in BulkOps
    /\ units \in SeqsUpTo(UnitIds, MaxUnits)
    /\ behaviour \in [1..Len(units) -> Behaviours(bulk_op)]
    /\ bulk_pc = "run" /\ idx = 1 /\ successful = <<>> /\ failed = <<>>
    /\ visits = [i \in 1..Len(units) |-> 0]
    /\ stored = {}
    /\ result = [total_attempted |-> 0, success_count |-> 0, failure_count |-> 0]
    /\ assessments = <<>>
    /\ NarratorIdle
    /\ RiskIdle
    /\ StagesIdle

NextBulk == ForecastAllStep \/ ScoreAllStep \/ PlanAllStep \/ BulkReturn

SpecBulk == InitBulk /\ [][NextBulk]_vars

InList(list, pos) == Cardinality({k \in 1..Len(list) : list[k].pos = pos})

\* C7: in each bulk operation every unit before the loop position was processed
\* exactly once and sits exactly once in exactly one of successful and failed, in
\* failed (as a record of the unit and its error) exactly when its computation
\* raised; no later unit was touched yet; and the operation returns only after the
\* last unit, with success_count + failure_count = total_attempted = the number of
\* units given.
C7_BulkIsolation ==
    /\ \A i \in 1..Len(units) :
         IF i < idx
         THEN /\ visits[i] = 1
              /\ InList(successful, i) + InList(failed, i) = 1
              /\ (InList(failed, i) = 1) <=> BodyRaises(bulk_op, behaviour[i])
              /\ \A k \in 1..Len(failed) :
                    failed[k].pos = i =>
                        (failed[k].unit = units[i] /\ failed[k].error = behaviour[i].kind)
         ELSE visits[i] = 0 /\ InList(successful, i) + InList(failed, i) = 0
    /\ bulk_pc = "returned" =>
         /\ idx = Len(units) + 1
         /\ result.total_attempted = Len(units)
         /\ result.success_count = Len(successful)
         /\ result.failure_count = Len(failed)
         /\ result.success_count + result.failure_count = result.total_attempted

C7_Witness ==
    /\ bulk_pc = "returned"
    /\ bulk_op.name = "plan_all_high_risk"
    /\ Len(units) = 3
    /\ Len(failed) = 1 /\ failed[1].pos = 1
    /\ Len(successful) = 2 /\ successful[1].pos = 2 /\ successful[2].pos = 3
    /\ result = [total_attempted |-> 3, success_count |-> 2, failure_count |-> 1]

\* ------------------------------------------------------------ RiskAssessment
ScoreValues == {0, 150, 299, 300, 301, 500, 699, 700, 701, 1000}

\* RiskAssessment.save: the level is computed from float(risk_score) only while
\* risk_level is None or ''.
SaveAssessment(a) ==
    IF a.risk_level = ""
    THEN [a EXCEPT !.risk_level = IF a.risk_score < 300 THEN "LOW"
                                  ELSE IF a.risk_score < 700 THEN "MEDIUM"
                                  ELSE "HIGH"]
    ELSE a

\* RiskAssessment(..., risk_score=s).save(), as score_transformer does: risk_level
\* is left at the field's default ''.
CreateAssessment ==
    /\ Len(assessments) < MaxAssessments
    /\ \E s \in ScoreValues :
         assessments' = Append(assessments, SaveAssessment([risk_score |-> s, risk_level |-> ""]))
    /\ UNCHANGED <<stageVars, narratorVars, bulkVars, riskVars>>

\* a.save() on a stored row, its risk_score unchanged or assigned before the save.
ResaveAssessment ==
    /\ \E i \in 1..Len(assessments), s \in ScoreValues :
         assessments' = [assessments EXCEPT ![i] = SaveAssessment([@ EXCEPT !.risk_score = s])]
    /\ UNCHANGED <<stageVars, narratorVars, bulkVars, riskVars>>

InitAssessments ==
    /\ assessments = <<>>
    /\ NarratorIdle
    /\ BulkIdle
    /\ RiskIdle
    /\ StagesIdle

NextAssessments == CreateAssessment \/ ResaveAssessment

SpecAssessments == InitAssessments /\ [][NextAssessments]_vars

\* The step function of the data model: LOW below 0.30, HIGH from 0.70, else MEDIUM.
StepLevel(score) ==
    IF score < 300 THEN "LOW" ELSE IF score >= 700 THEN "HIGH" ELSE "MEDIUM"

\* C8: every stored RiskAssessment has risk_level equal to the step function of its
\* risk_score, with the boundaries at 0.30 and 0.70.
C8_LevelIsStepOfScore ==
    \A i \in 1..Len(assessments) :
        assessments[i].risk_level = StepLevel(assessments[i].risk_score)

\* ---------------------------------------------------------------- RiskScorer
PctInputs == (PctMin..PctMax) \cup {0, 5000, 15000, 99999}
ThermalValues == {0, 200, 468, 1000}
CascadingValues == {0, 300, 500, 700}

\* _calculate_overload_score with the first boundary test written as < 90.
CalculateOverloadScore_StrictBoundary(load_pct) ==
    IF load_pct < 9000 THEN 0
    ELSE IF load_pct <= 10000 THEN 300000 + (load_pct - 9000) * 400
    ELSE IF 700000 + (load_pct - 10000) * 150 < 1000000
         THEN 700000 + (load_pct - 10000) * 150 ELSE 1000000

\* _calculate_overload_score with the upper ramp starting from 0.6.
CalculateOverloadScore_LowRamp(load_pct) ==
    IF load_pct <= 9000 THEN 0
    ELSE IF load_pct <= 10000 THEN 300000 + (load_pct - 9000) * 400
    ELSE IF 600000 + (load_pct - 10000) * 150 < 1000000
         THEN 600000 + (load_pct - 10000) * 150 ELSE 1000000

\* _calculate_overload_score: load_pct in hundredths of a percent, the score in
\* millionths; (load_pct - 90) * 0.04 is 400 millionths per hundredth of a percent
\* and (load_pct - 100) * 0.015 is 150.
CalculateOverloadScore(load_pct) ==
    IF load_pct <= 9000 THEN 0
    ELSE IF load_pct <= 10000 THEN 300000 + (load_pct - 9000) * 400
    ELSE IF 700000 + (load_pct - 10000) * 150 < 1000000
         THEN 700000 + (load_pct - 10000) * 150 ELSE 1000000

\* round(Decimal(str(x)), 3) for x in millionths: half to even, in thousandths.
Round3(x) ==
    LET q == x \div 1000
        r == x % 1000
    IN  IF r > 500 \/ (r = 500 /\ q % 2 = 1) THEN q + 1 ELSE q

\* The weighted combination, in millionths: 0.6 * overload + 0.2 * thermal +
\* 0.2 * cascading, with thermal and cascading given in thousandths.
WeightedScore(overload, thermal, cascading) ==
    (overload * 6) \div 10 + thermal * 200 + cascading * 200

\* score_transformer on a forecast with this peak: the components, the weighted
\* total and the stored risk_score.
ScoreTransformer ==
    /\ risk_pc = "input"
    /\ overload_score' = CalculateOverloadScore(peak_pct)
    /\ total_score' = Round3(WeightedScore(CalculateOverloadScore(peak_pct),
                                           thermal_score, cascading_score))
    /\ risk_pc' = "scored"
    /\ UNCHANGED <<stageVars, peak_pct, thermal_score, cascading_score, assessments, narratorVars,
                   bulkVars>>

\* score_transformer again on a later forecast of the same unit whose peak is not
\* lower, with the thermal and cascading components as before.
ScoreHigherPeak ==
    /\ risk_pc = "scored"
    /\ \E p \in ({peak_pct + d : d \in 0..MaxDelta} \cup {PctMin, 5000, 15000, 99999})
                  \cap PctInputs :
         /\ p >= peak_pct
         /\ peak_pct' = p
         /\ overload_score' = CalculateOverloadScore(p)
         /\ total_score' = Round3(WeightedScore(CalculateOverloadScore(p),
                                                thermal_score, cascading_score))
    /\ UNCHANGED <<stageVars, risk_pc, thermal_score, cascading_score, assessments, narratorVars,
                   bulkVars>>

InitRisk ==
    /\ risk_pc = "input"
    /\ peak_pct \in PctInputs
    /\ thermal_score \in ThermalValues
    /\ cascading_score \in CascadingValues
    /\ overload_score = 0
    /\ total_score = 0
    /\ assessments = <<>>
    /\ NarratorIdle
    /\ BulkIdle
    /\ StagesIdle

NextRisk == ScoreTransformer \/ ScoreHigherPeak

SpecRisk == InitRisk /\ [][NextRisk]_vars

\* C9: the overload component is 0 up to 90%, lies on the line from 0.30 at 90% to
\* 0.70 at 100% over (90,100], on the line from 0.70 at 100% to 1.00 at 120% over
\* (100,120], and is 1.0 above 120%.
C9_OverloadPiecewise ==
    risk_pc = "scored" =>
        /\ peak_pct <= 9000 => overload_score = 0
        /\ (9000 < peak_pct /\ peak_pct <= 10000) =>
              (overload_score - 300000) * (10000 - 9000)
                  = (700000 - 300000) * (peak_pct - 9000)
        /\ peak_pct = 10000 => overload_score = 700000
        /\ (10000 < peak_pct /\ peak_pct <= 12000) =>
              (overload_score - 700000) * (12000 - 10000)
                  = (1000000 - 700000) * (peak_pct - 10000)
        /\ peak_pct = 12000 => overload_score = 1000000
        /\ peak_pct > 12000 => overload_score = 1000000

C9_Witness ==
    /\ risk_pc = "scored"
    /\ peak_pct = 9001
    /\ overload_score = 300400

\* C10: with the thermal and cascading components fixed, scoring a peak that is not
\* lower never gives a lower overload component or a lower risk score.
C10_MonotoneInPeak ==
    [][ (risk_pc = "scored" /\ risk_pc' = "scored" /\ peak_pct' >= peak_pct
         /\ thermal_score' = thermal_score /\ cascading_score' = cascading_score)
        => (total_score' >= total_score /\ overload_score' >= overload_score) ]_vars

C10_Witness ==
    /\ risk_pc = "scored"
    /\ peak_pct = 10001
    /\ thermal_score = 468
    /\ cascading_score = 300
    /\ total_score = Round3(420090 + 93600 + 60000)

\* --------------------------------- RiskScorer on telemetry and topology
\* Temperatures are integers in hundredths of a degree Celsius, kW values integers
\* in thousandths of a kW, component scores integers in millionths.
Min(a, b) == IF a < b THEN a ELSE b
Max(a, b) == IF a > b THEN a ELSE b

\* A neighbour unit as the queries see it: its rating, its most recent
\* TransformerLoad (if any) and its most recent LoadForecast (if any).
Neighbor(rated, pct, load, fc) ==
    [rated_kw |-> rated, max_load_pct |-> pct, latest_load |-> load, latest_forecast |-> fc]

NoLoad == [has |-> FALSE, load_kw |-> 0, load_pct |-> 0]
Load(kw, pct) == [has |-> TRUE, load_kw |-> kw, load_pct |-> pct]
NoForecast == [has |-> FALSE, peak_predicted_kw |-> 0]

\* A TopologyLink row from the unit to a neighbour.
Link(active, max_kw, switch, to) ==
    [is_active |-> active, max_transfer_kw |-> max_kw, has_switch |-> switch, to |-> to]

\* _calculate_thermal_score without the final min(..., 1.0).
CalculateThermalScore_NoClamp(reading, unit) ==
    IF ~reading.has \/ reading.temp_c = 0 THEN 200000
    ELSE LET T == reading.temp_c
             temp_score ==
                 IF T <= 2500 THEN 0
                 ELSE IF T <= 3000 THEN (T - 2500) * 6
                 ELSE IF T <= 3500 THEN 3000 + (T - 3000) * 6
                 ELSE IF T <= 4000 THEN 6000 + (T - 3500) * 6
                 ELSE Min(9000 + (T - 4000) * 2, 10000)
             age_factor == IF unit.age > 25 THEN 13 ELSE IF unit.age > 15 THEN 11 ELSE 10
             cooling_factor == IF unit.cooling_type = "ONAF" THEN 8 ELSE 10
         IN  temp_score * age_factor * cooling_factor

\* _calculate_thermal_score: latest_temp stays None without a reading, and
\* `if not latest_temp` is also true for a reading of 0.0; temp_score is in
\* ten-thousandths (0.06 per degree is 6 per hundredth of a degree, 0.02 is 2), the
\* two factors in tenths, the result in millionths.
CalculateThermalScore(reading, unit) ==
    IF ~reading.has \/ reading.temp_c = 0 THEN 200000
    ELSE LET T == reading.temp_c
             temp_score ==
                 IF T <= 2500 THEN 0
                 ELSE IF T <= 3000 THEN (T - 2500) * 6
                 ELSE IF T <= 3500 THEN 3000 + (T - 3000) * 6
                 ELSE IF T <= 4000 THEN 6000 + (T - 3500) * 6
                 ELSE Min(9000 + (T - 4000) * 2, 10000)
             age_factor == IF unit.age > 25 THEN 13 ELSE IF unit.age > 15 THEN 11 ELSE 10
             cooling_factor == IF unit.cooling_type = "ONAF" THEN 8 ELSE 10
         IN  Min(temp_score * age_factor * cooling_factor, 1000000)

\* _calculate_cascading_score over every link of the unit, active or not.
CalculateCascadingScore_AllLinks(outgoing) ==
    LET total_neighbors == Len(outgoing)
        neighbors_overloaded ==
            Cardinality({i \in 1..Len(outgoing) :
                           outgoing[i].to.latest_load.has
                           /\ outgoing[i].to.latest_load.load_pct > 8500})
    IN  IF total_neighbors = 0 THEN 500000
        ELSE IF neighbors_overloaded = 0 THEN 0
        ELSE IF 2 * neighbors_overloaded < total_neighbors THEN 300000
        ELSE 700000

\* _calculate_cascading_score: the query keeps the active links of the unit; a
\* neighbour counts when it has a latest reading with load_pct > 85.
CalculateCascadingScore(outgoing) ==
    LET outgoing_links == SelectSeq(outgoing, LAMBDA l : l.is_active)
        total_neighbors == Len(outgoing_links)
        neighbors_overloaded ==
            Cardinality({i \in 1..Len(outgoing_links) :
                           outgoing_links[i].to.latest_load.has
                           /\ outgoing_links[i].to.latest_load.load_pct > 8500})
    IN  IF Len(outgoing_links) = 0 THEN 500000
        ELSE IF total_neighbors = 0 THEN 500000
        ELSE IF neighbors_overloaded = 0 THEN 0
        ELSE IF 2 * neighbors_overloaded < total_neighbors THEN 300000
        ELSE 700000

\* round(x, 3) of a value given as x in units of 1/(1000 * unit): the nearest
\* thousandth; when x lies exactly half way, the binary floating-point value of
\* the sum decides, so either neighbour can come out.
Round3Choices(x, unit) ==
    LET q == x \div unit
        r == x % unit
    IN  IF 2 * r < unit THEN {q} ELSE IF 2 * r > unit THEN {q + 1} ELSE {q, q + 1}

\* round(x, d) of x given in units of 1/unit of the last kept digit; an exact half
\* goes the way the floating-point value happens to lie.
RoundTie(x, unit, up) ==
    LET q == x \div unit
        r == x % unit
    IN  IF 2 * r < unit THEN q ELSE IF 2 * r > unit THEN q + 1
        ELSE IF up THEN q + 1 ELSE q

\* A scorer that goes on without looking at the predictions.
NoPredictions_Unchecked(f) == FALSE

\* `if not forecast.predictions`
NoPredictions(f) == f.predictions = 0

\* score_transformer(transformer, forecast): the guard, the three components, the
\* weighted total (in ten-millionths: 6 * overload + 2 * thermal + 2 * cascading),
\* the RiskAssessment constructor and its save.
ScoreTransformerFromTelemetry ==
    /\ score_result = "none"
    /\ IF NoPredictions(forecast)
       THEN /\ score_result' = "ValueError"
            /\ UNCHANGED <<components, assessments>>
       ELSE LET o == CalculateOverloadScore(forecast.peak_predicted_pct)
                t == CalculateThermalScore(latest_temp, transformer)
                c == CalculateCascadingScore(links)
                total == 6 * o + 2 * t + 2 * c
            IN  /\ components' = [overload |-> o, thermal |-> t, cascading |-> c]
                /\ \E s \in Round3Choices(total, 10000), ro \in Round3Choices(o, 1000),
                      rt \in Round3Choices(t, 1000), rc \in Round3Choices(c, 1000) :
                     assessments' = Append(assessments, SaveAssessment(
                         [risk_score |-> s, risk_level |-> "",
                          overload_pct |-> forecast.peak_predicted_pct,
                          risk_components |-> [overload |-> ro, thermal |-> rt,
                                               cascading |-> rc]]))
                /\ score_result' = "ok"
    /\ UNCHANGED <<transformer, forecast, latest_temp, links, narratorVars, bulkVars,
                   riskVars, opsVars, forecasterVars, plannerVars>>

\* ---- inputs of the scorer
TempInputs == {-500, 0, 2500, 2750, 3000, 3250, 3500, 4000, 4250, 5000}
TempReadings == {[has |-> FALSE, temp_c |-> 0]} \cup {[has |-> TRUE, temp_c |-> T] : T \in TempInputs}
AgeInputs == {10, 15, 16, 25, 26}
CoolingTypes == {"ONAN", "ONAF", "OFAF"}
ScoredUnits == {[age |-> a, cooling_type |-> k, rated_kw |-> 225000, max_load_pct |-> 90] :
                  a \in AgeInputs, k \in CoolingTypes}
ScoredForecasts == {[predictions |-> n, peak_predicted_pct |-> p,
                     peak_predicted_kw |-> (p * 225) \div 10] :
                      n \in {0, 72}, p \in {8000, 9500, 12500}}
NeighborLoads == {NoLoad, Load(191250, 8500), Load(191270, 8501)}
ScoredLinks == {Link(a, 100000, TRUE, Neighbor(225000, 90, l, NoForecast)) :
                  a \in BOOLEAN, l \in NeighborLoads}
BusyLinks == <<Link(TRUE, 100000, TRUE, Neighbor(225000, 90, Load(191270, 8501), NoForecast))>>

\* Every thermal input with two topologies, and every topology with two readings.
InitScorer ==
    /\ forecast \in ScoredForecasts
    /\ \/ /\ transformer \in ScoredUnits
          /\ latest_temp \in TempReadings
          /\ links \in {<<>>, BusyLinks}
       \/ /\ transformer = [age |-> 10, cooling_type |-> "ONAN", rated_kw |-> 225000,
                            max_load_pct |-> 90]
          /\ latest_temp \in {[has |-> FALSE, temp_c |-> 0], [has |-> TRUE, temp_c |-> 3000]}
          /\ links \in SeqsUpTo(ScoredLinks, MaxLinks)
    /\ components = [overload |-> 0, thermal |-> 0, cascading |-> 0]
    /\ score_result = "none"
    /\ assessments = <<>>
    /\ NarratorIdle
    /\ BulkIdle
    /\ RiskIdle
    /\ OpsIdle
    /\ ForecasterIdle
    /\ PlannerIdle

NextScorer == ScoreTransformerFromTelemetry

SpecScorer == InitScorer /\ [][NextScorer]_vars

\* C11: for every assessment score_transformer produces, the overload, thermal and
\* cascading components lie in [0,1], risk_score is 0.6*overload + 0.2*thermal +
\* 0.2*cascading to three decimals (within half a thousandth), and it lies in [0,1].
C11_ComponentsAndScoreInRange ==
    score_result = "ok" =>
        /\ Len(assessments) = 1
        /\ \A k \in {"overload", "thermal", "cascading"} :
              /\ 0 <= components[k] /\ components[k] <= 1000000
              /\ 0 <= assessments[1].risk_components[k]
              /\ assessments[1].risk_components[k] <= 1000
        /\ LET exact == 6 * components.overload + 2 * components.thermal
                          + 2 * components.cascading
               kept == assessments[1].risk_score * 10000
           IN  kept - exact <= 5000 /\ exact - kept <= 5000
        /\ 0 <= assessments[1].risk_score /\ assessments[1].risk_score <= 1000

C11_Witness ==
    /\ score_result = "ok"
    /\ latest_temp = [has |-> TRUE, temp_c |-> 5000]
    /\ transformer.age = 26 /\ transformer.cooling_type = "ONAN"
    /\ components = [overload |-> 1000000, thermal |-> 1000000, cascading |-> 700000]
    /\ assessments[1].risk_score = 940
    /\ assessments[1].risk_level = "HIGH"

\* C17: when the forecast has no predictions score_transformer fails with its
\* error, and no RiskAssessment is created or saved.
C17_EmptyForecastFails ==
    (forecast.predictions = 0 /\ score_result # "none") =>
        /\ score_result = "ValueError"
        /\ assessments = <<>>
        /\ components = [overload |-> 0, thermal |-> 0, cascading |-> 0]

C17_Witness ==
    /\ score_result = "ValueError"
    /\ forecast.predictions = 0
    /\ forecast.peak_predicted_pct = 12500
    /\ Len(links) = 3
    /\ assessments = <<>>

\* The base value of the thermal component as the methodology gives it for a
\* reading of T up to 40 degrees, in ten-thousandths: 0 up to 25, then the straight
\* lines through 0.3 at 30, 0.6 at 35 and 0.9 at 40.
Interpolate(T, lo, hi, vlo, vhi) == vlo + ((vhi - vlo) * (T - lo)) \div (hi - lo)

ThermalBase(T) ==
    IF T <= 2500 THEN 0
    ELSE IF T <= 3000 THEN Interpolate(T, 2500, 3000, 0, 3000)
    ELSE IF T <= 3500 THEN Interpolate(T, 3000, 3500, 3000, 6000)
    ELSE Interpolate(T, 3500, 4000, 6000, 9000)

AgeFactor(age) == IF age > 25 THEN 13 ELSE IF age > 15 THEN 11 ELSE 10
CoolingFactor(kind) == IF kind = "ONAF" THEN 8 ELSE 10

\* C19: the thermal component is 0.20 only for a unit without a temperature
\* reading; with a most recent reading T it is the base value (0 for every T <= 25,
\* zero and negative T included, 0.3 at 30, 0.6 at 35, 0.9 at 40, linear in between,
\* between 0.9 and 1.0 above 40) times the age factor and the cooling factor
\* (0.8 for ONAF), clamped to 1.0.
C19_ThermalPiecewise ==
    score_result = "ok" =>
        LET T == latest_temp.temp_c
            f == AgeFactor(transformer.age) * CoolingFactor(transformer.cooling_type)
        IN  IF ~latest_temp.has THEN components.thermal = 200000
            ELSE IF T <= 4000 THEN components.thermal = Min(ThermalBase(T) * f, 1000000)
            ELSE /\ components.thermal >= Min(9000 * f, 1000000)
                 /\ components.thermal <= Min(10000 * f, 1000000)

\* C20: the cascading component is 0.5 when the unit has no active outgoing link;
\* otherwise, with the neighbours of its active links and those among them whose
\* latest load_pct exceeds 85 (none without a reading), it is 0.0 when there is no
\* such neighbour, 0.3 when they are fewer than half and 0.7 when they are half or
\* more; an inactive link changes nothing.
C20_CascadingByFraction ==
    score_result = "ok" =>
        LET active == {i \in 1..Len(links) : links[i].is_active}
            over == {i \in active : links[i].to.latest_load.has
                                      /\ links[i].to.latest_load.load_pct > 8500}
        IN  /\ active = {} => components.cascading = 500000
            /\ (active # {} /\ over = {}) => components.cascading = 0
            /\ (over # {} /\ 2 * Cardinality(over) < Cardinality(active))
                  => components.cascading = 300000
            /\ (over # {} /\ 2 * Cardinality(over) >= Cardinality(active))
                  => components.cascading = 700000

C20_Witness ==
    /\ score_result = "ok"
    /\ Len(links) = 3
    /\ \A i \in 1..3 : links[i].is_active
    /\ links[1].to.latest_load = NoLoad
    /\ links[2].to.latest_load.load_pct = 8501
    /\ links[3].to.latest_load.load_pct = 8500
    /\ components.cascading = 300000

\* ------------------------------------------------------- LoadForecaster
\* The least number of readings forecast accepts.
MinReadings == 24

\* A filter that forgets the transformer.
Qualifies_AnyUnit(key, unit, days) == key.age_days <= days

\* filter(transformer=transformer, timestamp__gte=now - timedelta(days=lookback_days))
Qualifies(key, unit, days) == key.unit = unit /\ key.age_days <= days

RECURSIVE SumOver(_, _)
SumOver(f, S) ==
    IF S = {} THEN 0
    ELSE LET k == CHOOSE x \in S : TRUE IN f[k] + SumOver(f, S \ {k})

\* historical_data.count()
HistoricalCount(rows, unit, days) ==
    SumOver(rows, {k \in ReadingKeys : Qualifies(k, unit, days)})

\* The rows the query returns, handed to _calculate_hourly_patterns,
\* _estimate_temperature_factor and _calculate_confidence.
HistoricalData(rows, unit, days) ==
    [k \in ReadingKeys |-> IF Qualifies(k, unit, days) THEN rows[k] ELSE 0]

\* _calculate_hourly_patterns: the mean load_kw per hour of day, in hundredths of a
\* kW, for the load shapes the rows can have.
HourlyProfiles == {"zero", "flat", "evening", "midnight", "tiny"}

HourlyPatterns(profile, hour) ==
    CASE profile = "zero" -> 0
      [] profile = "flat" -> 18000
      [] profile = "evening" -> IF hour \in 18..22 THEN 21000 ELSE 15000
      [] profile = "midnight" -> IF hour = 23 THEN 20000 ELSE IF hour = 0 THEN 23000 ELSE 12345
      [] OTHER -> 10

\* if day_of_week in [5, 6]: predicted_kw *= 0.85, in twentieths.  Hour 0 of the
\* clock is Monday 00:00.
WeekendFactor(t) == IF (t \div 24) % 7 \in {5, 6} THEN 17 ELSE 20

\* _estimate_temperature_factor, in thousandths; avg is in tenths of a degree.
TemperatureFactor(hour, temps) ==
    IF ~temps.has
    THEN IF hour \in 12..18 THEN 1100
         ELSE IF hour \in 6..11 \/ hour \in 19..22 THEN 1000
         ELSE 950
    ELSE LET estimated_temp == IF hour \in 12..16 THEN temps.avg + 30
                               ELSE IF hour \in 17..20 THEN temps.avg + 10
                               ELSE IF hour \in 0..6 THEN temps.avg - 30
                               ELSE temps.avg
         IN  IF estimated_temp > 250 THEN 1000 + (estimated_temp - 250) ELSE 1000

\* predicted_kw before rounding, in 1/20000 of a hundredth of a kW.
PredictedKw(t, env) ==
    HourlyPatterns(env.hourly, t % 24) * WeekendFactor(t) * TemperatureFactor(t % 24, env.temps)

\* target_time.isoformat(): the date and the hour of day.
IsoFormat(t) == [day |-> t \div 24, hour |-> t % 24]

\* A loop that starts one hour after now: range(1, hours_ahead + 1).
Predictions_FromNextHour(hours_ahead, env) ==
    [j \in 1..hours_ahead |->
       [timestamp |-> IsoFormat(env.now + j),
        predicted_kw |-> RoundTie(PredictedKw(env.now + j, env), 20000, env.up)]]

\* The predictions list: for hour_offset in range(hours_ahead).
Predictions(hours_ahead, env) ==
    [j \in 1..hours_ahead |->
       [timestamp |-> IsoFormat(env.now + (j - 1)),
        predicted_kw |-> RoundTie(PredictedKw(env.now + (j - 1), env), 20000, env.up)]]

\* The running maximum of the loop: if predicted_kw > peak_kw, from offset j on.
RECURSIVE TrackPeak(_, _, _, _)
TrackPeak(j, hours_ahead, env, peak) ==
    IF j >= hours_ahead THEN peak
    ELSE LET t == env.now + j
             kw == PredictedKw(t, env)
         IN  TrackPeak(j + 1, hours_ahead, env,
                       IF kw > peak.kw THEN [kw |-> kw, time |-> t] ELSE peak)

\* hours_ahead as the view passes it on.
Horizons == {0, 1, MaxHorizon}

\* A TransformerLoad row arrives for some unit, stamped now or earlier.
IngestReading ==
    /\ ingested < MaxIngest
    /\ \E k \in ReadingKeys :
         /\ k.age_days >= 0
         /\ readings' = [readings EXCEPT ![k] = @ + 1]
    /\ ingested' = ingested + 1
    /\ UNCHANGED <<lookback_days, fc_unit, fc_env, fc_runs, fc_result, fc_returned,
                   saved_forecasts, assessments, narratorVars, bulkVars, riskVars, opsVars, scorerVars,
                   plannerVars>>

\* A TransformerLoad row arrives whose timestamp is ahead of the server's clock.
IngestReadingAhead ==
    /\ ingested < MaxIngest
    /\ \E k \in ReadingKeys :
         /\ k.age_days < 0
         /\ readings' = [readings EXCEPT ![k] = @ + 1]
    /\ ingested' = ingested + 1
    /\ UNCHANGED <<lookback_days, fc_unit, fc_env, fc_runs, fc_result, fc_returned,
                   saved_forecasts, assessments, narratorVars, bulkVars, riskVars, opsVars, scorerVars,
                   plannerVars>>

\* LoadForecastViewSet.run: forecaster.forecast(transformer, hours_ahead), which
\* raises ValueError below 24 qualifying readings and otherwise builds the
\* LoadForecast, then forecast.save(); the ValueError becomes a 400 response.
RunForecast ==
    /\ fc_runs < MaxForecastRuns
    /\ fc_runs' = fc_runs + 1
    /\ \E hours_ahead \in Horizons :
         LET n == HistoricalCount(readings, fc_unit, lookback_days)
             peak == TrackPeak(0, hours_ahead, fc_env, [kw |-> 0, time |-> fc_env.now])
         IN  IF n < MinReadings
             THEN /\ fc_result' = "ValueError"
                  /\ fc_returned' = NoForecastReturned
                  /\ saved_forecasts' = saved_forecasts
             ELSE LET f == [has |-> TRUE, transformer |-> fc_unit,
                            forecast_horizon_hours |-> hours_ahead,
                            predictions |-> Predictions(hours_ahead, fc_env),
                            peak_predicted_kw |-> RoundTie(peak.kw, 20000, fc_env.up),
                            peak_time |-> peak.time,
                            historical_records |-> n,
                            historical_data |->
                                HistoricalData(readings, fc_unit, lookback_days)]
                  IN  /\ fc_result' = "ok"
                      /\ fc_returned' = f
                      /\ saved_forecasts' = Append(saved_forecasts, f)
    /\ UNCHANGED <<readings, lookback_days, fc_unit, fc_env, ingested, assessments, narratorVars,
                   bulkVars, riskVars, opsVars, scorerVars, plannerVars>>

InitForecaster ==
    /\ \E a \in {0, 21, 23}, b \in {0, 1}, c \in {0, 2}, d \in {0, 24} :
         readings = [k \in ReadingKeys |->
                       IF k = [unit |-> 1, age_days |-> 1] THEN a
                       ELSE IF k = [unit |-> 1, age_days |-> 7] THEN b
                       ELSE IF k = [unit |-> 1, age_days |-> 9] THEN c
                       ELSE IF k = [unit |-> 2, age_days |-> 1] THEN d
                       ELSE 0]
    /\ lookback_days \in {7, 14}
    /\ fc_unit = 1 /\ fc_env = QuietEvening /\ ingested = 0 /\ fc_runs = 0
    /\ fc_result = "none" /\ fc_returned = NoForecastReturned /\ saved_forecasts = <<>>
    /\ assessments = <<>>
    /\ NarratorIdle
    /\ BulkIdle
    /\ RiskIdle
    /\ OpsIdle
    /\ ScorerIdle
    /\ PlannerIdle

NextForecaster == IngestReading \/ RunForecast

SpecForecaster == InitForecaster /\ [][NextForecaster]_vars

\* The same store when rows stamped after now can arrive.
NextForecasterAhead == IngestReading \/ IngestReadingAhead \/ RunForecast

SpecForecasterAhead == InitForecaster /\ [][NextForecasterAhead]_vars

\* Forecast calls at several times of the week, over several load shapes.
ForecastClocks == {10, 118, 166}
MeanTemperatures == {[has |-> FALSE, avg |-> 0], [has |-> TRUE, avg |-> 220],
                     [has |-> TRUE, avg |-> 273]}
ForecastEnvs ==
    {[now |-> t, hourly |-> h, temps |-> m, up |-> u] :
        t \in ForecastClocks, h \in HourlyProfiles, m \in MeanTemperatures, u \in BOOLEAN}

InitPredictions ==
    /\ readings = [k \in ReadingKeys |-> IF k = [unit |-> 1, age_days |-> 1] THEN 23 ELSE 0]
    /\ lookback_days = 7
    /\ fc_env \in ForecastEnvs
    /\ fc_unit = 1 /\ ingested = 0 /\ fc_runs = 0
    /\ fc_result = "none" /\ fc_returned = NoForecastReturned /\ saved_forecasts = <<>>
    /\ assessments = <<>>
    /\ NarratorIdle
    /\ BulkIdle
    /\ RiskIdle
    /\ OpsIdle
    /\ ScorerIdle
    /\ PlannerIdle

SpecPredictions == InitPredictions /\ [][NextForecaster]_vars

\* The unit's readings inside the lookback window, counted from the rows.
InWindow ==
    readings[[unit |-> fc_unit, age_days |-> 1]]
    + (IF lookback_days >= 7 THEN readings[[unit |-> fc_unit, age_days |-> 7]] ELSE 0)
    + (IF lookback_days >= 9 THEN readings[[unit |-> fc_unit, age_days |-> 9]] ELSE 0)

WindowKeys(unit, days) ==
    {k \in ReadingKeys : k.unit = unit /\ 0 <= k.age_days /\ k.age_days <= days}

\* C22: a forecast is built only from readings of the unit stamped within
\* [now - lookback_days, now]: no row older than the window and no row stamped after
\* now is among the rows the means, the temperature factor and the confidence are
\* computed from, and at least 24 rows of the window stand behind every forecast.
C22_OnlyWindowReadings ==
    fc_returned.has =>
        /\ \A k \in ReadingKeys :
              fc_returned.historical_data[k] > 0
                  => k \in WindowKeys(fc_returned.transformer, lookback_days)
        /\ SumOver(fc_returned.historical_data,
                   WindowKeys(fc_returned.transformer, lookback_days)) >= 24

HourOf(timestamp) == timestamp.day * 24 + timestamp.hour

\* C23: a returned forecast for hours_ahead = H holds exactly H predictions, the
\* j-th for the hour now + (j - 1), so that the timestamps rise by one hour each;
\* for H >= 1 its peak_predicted_kw is the largest predicted_kw of the list and
\* peak_time is the timestamp of a prediction that has it.
C23_PredictionsAndPeak ==
    fc_returned.has =>
        LET H == fc_returned.forecast_horizon_hours
            P == fc_returned.predictions
        IN  /\ Len(P) = H
            /\ \A j \in 1..H : P[j].timestamp = IsoFormat(fc_env.now + (j - 1))
            /\ \A j \in 1..(H - 1) : HourOf(P[j + 1].timestamp) = HourOf(P[j].timestamp) + 1
            /\ H >= 1 =>
                  /\ \A j \in 1..H : P[j].predicted_kw <= fc_returned.peak_predicted_kw
                  /\ \E j \in 1..H :
                        /\ P[j].predicted_kw = fc_returned.peak_predicted_kw
                        /\ P[j].timestamp = IsoFormat(fc_returned.peak_time)

C23_Witness ==
    /\ fc_returned.has
    /\ fc_returned.forecast_horizon_hours = MaxHorizon
    /\ fc_env.now = 118 /\ fc_env.hourly = "midnight" /\ ~fc_env.temps.has
    /\ fc_returned.peak_time = 119
    /\ fc_returned.predictions[3].timestamp = [day |-> 5, hour |-> 0]
    /\ fc_returned.predictions[3].predicted_kw < fc_returned.peak_predicted_kw

\* ------------------------------------- the narrator with a backend that may hang
\* client.messages.create(...) is called without a timeout argument and on the
\* caller's thread: when the backend never answers, the call never returns and
\* enhance_plan stays inside the try block of generate_action_plan.
BackendCallHangs ==
    /\ enh_pc = "loop"
    /\ enabled
    /\ enh_pc' = "blocked"
    /\ apiCalls' = apiCalls + 1
    /\ UNCHANGED <<stageVars, plans, assessments, forecasts, max_retries, enabled, enh_plan,
                   attempt, callLog, outcome, accepted, runs, bulkVars, riskVars>>

NextNarratorBlocking == EnhanceBegin \/ EnhanceAttempt \/ EnhanceReturn \/ BackendCallHangs

\* The interpreter keeps running the loop of enhance_plan: every step that can be
\* taken is eventually taken.
SpecNarratorBlocking ==
    /\ InitNarrator
    /\ [][NextNarratorBlocking]_vars
    /\ WF_vars(EnhanceBegin)
    /\ WF_vars(EnhanceAttempt)
    /\ WF_vars(EnhanceReturn)

\* C18: enhance_plan never blocks for ever: once it has entered its loop it
\* eventually returns, with ENHANCED or FALLBACK_USED, even when the backend does
\* not answer.
C18_EnhanceNeverBlocks ==
    (enh_pc = "loop") ~> (enh_pc = "done" /\ outcome \in {"ENHANCED", "FALLBACK_USED"})

\* ------------------------------------------------------ MitigationSimulator
\* kW values are integers in thousandths of a kW.  rated_kw is a multiple of 25 kW
\* in the inputs, so that with k = rated_kw / 25 kW the overload score of the
\* reduced peak, times k, is an integer number of millionths.
MaxTransferTenths == 3
MinViableKw == 50000

ErrNotOverloaded == "is not overloaded"
ErrNoNeighbors == "has no topology neighbors for load transfer"
ErrNoViablePlan == "No viable mitigation plans (neighbors at capacity)"

\* _calculate_overload_kw
CalculateOverloadKw(fc, unit) ==
    Max(0, fc.peak_predicted_kw - (unit.rated_kw * unit.max_load_pct) \div 100)

\* _get_neighbors: the positions of the active links, in query order.
GetNeighbors(outgoing) ==
    SelectSeq([i \in 1..Len(outgoing) |-> i], LAMBDA i : outgoing[i].is_active)

\* The available capacity measured against the full rating instead of the safe limit.
GetAvailableCapacity_RatedCapacity(nbr) ==
    LET current_load_kw ==
            IF nbr.latest_load.has THEN nbr.latest_load.load_kw
            ELSE IF nbr.latest_forecast.has THEN nbr.latest_forecast.peak_predicted_kw
            ELSE (nbr.rated_kw * 7) \div 10
    IN  Max(0, nbr.rated_kw - current_load_kw)

\* _get_available_capacity: the latest load, else the latest forecast peak, else
\* 70% of the rating, against rated_kw * max_load_pct / 100.
GetAvailableCapacity(nbr) ==
    LET current_load_kw ==
            IF nbr.latest_load.has THEN nbr.latest_load.load_kw
            ELSE IF nbr.latest_forecast.has THEN nbr.latest_forecast.peak_predicted_kw
            ELSE (nbr.rated_kw * 7) \div 10
        safe_capacity == (nbr.rated_kw * nbr.max_load_pct) \div 100
    IN  Max(0, safe_capacity - current_load_kw)

\* The transfer with the whole available capacity of the neighbour.
TransferKw_NoMargin(overload_kw, link, available_kw, fc) ==
    Min(Min(overload_kw, link.max_transfer_kw),
        Min(available_kw, (fc.peak_predicted_kw * MaxTransferTenths) \div 10))

\* transfer_kw = min(overload_kw, max_transfer_by_link, max_transfer_by_capacity,
\*                   max_transfer_by_source)
TransferKw(overload_kw, link, available_kw, fc) ==
    Min(Min(overload_kw, link.max_transfer_kw),
        Min((available_kw * safety_margin) \div 10,
            (fc.peak_predicted_kw * MaxTransferTenths) \div 10))

\* _calculate_overload_score(new_peak_pct) for new_peak_pct = new_peak_kw /
\* rated_kw * 100, times k = rated_kw / 25000, in millionths.
SimulatedOverload(new_peak_kw, rated_kw) ==
    LET k == rated_kw \div 25000
    IN  IF 10 * new_peak_kw <= 9 * rated_kw THEN 0
        ELSE IF new_peak_kw <= rated_kw THEN 160 * new_peak_kw - 3300000 * k
        ELSE Min(60 * new_peak_kw - 800000 * k, 1000000 * k)

\* _simulate_transfer that scores the peak before the transfer.
SimulateTransfer_OldPeak(unit, transfer_kw, fc, reading, outgoing, up) ==
    LET k == unit.rated_kw \div 25000
        overload == SimulatedOverload(fc.peak_predicted_kw, unit.rated_kw)
        thermal == CalculateThermalScore(reading, unit)
        cascading == CalculateCascadingScore(outgoing)
    IN  RoundTie(6 * overload + k * (2 * thermal + 2 * cascading),
                 10000 * k, up)

\* _simulate_transfer: the overload score of the reduced peak, the thermal score
\* from the unit's latest reading and the cascading score from its links as they
\* are when the plan is generated, weighted and rounded to three decimals.
SimulateTransfer(unit, transfer_kw, fc, reading, outgoing, up) ==
    LET k == unit.rated_kw \div 25000
        new_peak_kw == fc.peak_predicted_kw - transfer_kw
        overload == SimulatedOverload(new_peak_kw, unit.rated_kw)
        thermal == CalculateThermalScore(reading, unit)
        cascading == CalculateCascadingScore(outgoing)
    IN  RoundTie(6 * overload + k * (2 * thermal + 2 * cascading),
                 10000 * k, up)

\* plan_data and the MitigationPlan constructor for the link at position i.
CandidatePlan(i, unit, fc, assessment, transfer_kw, simulated_risk, up) ==
    [link |-> i,
     plan_json |->
        [transfer_kw |-> RoundTie(transfer_kw, 10, up) * 10,
         risk_before |-> assessment.risk_score,
         risk_after |-> simulated_risk,
         risk_reduction |-> assessment.risk_score - simulated_risk,
         load_before_pct |-> fc.peak_predicted_pct,
         load_after_pct |-> RoundTie(2 * (fc.peak_predicted_kw - transfer_kw),
                                     5 * (unit.rated_kw \div 25000), up)],
     expected_risk_after |-> simulated_risk,
     expected_load_reduction_kw |-> transfer_kw,
     llm_confidence |-> 0,
     status |-> "DRAFT"]

\* The loop over the neighbours: a neighbour with less than 50 kW available or a
\* transfer below 50 kW is skipped, every other one appends its plan.
RECURSIVE CandidatePlans(_, _, _, _, _, _, _)
CandidatePlans(neighbors, unit, fc, assessment, reading, outgoing, up) ==
    IF neighbors = <<>> THEN <<>>
    ELSE LET i == Head(neighbors)
             rest == CandidatePlans(Tail(neighbors), unit, fc, assessment, reading,
                                    outgoing, up)
             available_kw == GetAvailableCapacity(outgoing[i].to)
             transfer_kw == TransferKw(CalculateOverloadKw(fc, unit), outgoing[i],
                                       available_kw, fc)
         IN  IF available_kw < MinViableKw THEN rest
             ELSE IF transfer_kw < MinViableKw THEN rest
             ELSE <<CandidatePlan(i, unit, fc, assessment, transfer_kw,
                                  SimulateTransfer(unit, transfer_kw, fc, reading,
                                                   outgoing, up), up)>> \o rest

\* The place of a plan in a ranked list: behind every plan whose risk_reduction is
\* not smaller.
RECURSIVE InsertRanked(_, _)
InsertRanked(ranked, plan) ==
    IF ranked = <<>> THEN <<plan>>
    ELSE IF Head(ranked).plan_json.risk_reduction >= plan.plan_json.risk_reduction
    THEN <<Head(ranked)>> \o InsertRanked(Tail(ranked), plan)
    ELSE <<plan>> \o ranked

RECURSIVE SortedFrom(_, _)
SortedFrom(ranked, rest) ==
    IF rest = <<>> THEN ranked
    ELSE SortedFrom(InsertRanked(ranked, Head(rest)), Tail(rest))

RECURSIVE Reverse(_)
Reverse(q) == IF q = <<>> THEN <<>> ELSE Reverse(Tail(q)) \o <<Head(q)>>

\* The ranking done as an ascending sort that is then reversed.
RankPlans_ReversedAscending(candidates) == SortedFrom(<<>>, Reverse(candidates))

\* sorted(candidate_plans, key=risk_reduction, reverse=True): a stable sort, equal
\* keys keep their order also with reverse=True.
RankPlans(candidates) == SortedFrom(<<>>, candidates)

\* ranked_plans[:max_plans]
TopPlans(ranked, n) == SubSeq(ranked, 1, Min(n, Len(ranked)))

\* The guards before the loop with the two tests in the other order.
FailureBeforeLoop_NeighborsFirst(overload_kw, neighbors) ==
    IF neighbors = <<>> THEN ErrNoNeighbors
    ELSE IF overload_kw <= 0 THEN ErrNotOverloaded
    ELSE ""

\* `if overload_kw <= 0: raise`, then `if not neighbors: raise`.
FailureBeforeLoop(overload_kw, neighbors) ==
    IF overload_kw <= 0 THEN ErrNotOverloaded
    ELSE IF neighbors = <<>> THEN ErrNoNeighbors
    ELSE ""

\* MitigationPlanViewSet.generate: generate_plans(assessment, max_plans) and, when
\* it returns, plan.save() for each plan; a ValueError becomes a 400 response.
GeneratePlans ==
    /\ plan_result = "none"
    /\ score_result = "ok"
    /\ \E n \in 1..3, up \in BOOLEAN :
         LET assessment == assessments[Len(assessments)]
             overload_kw == CalculateOverloadKw(forecast, transformer)
             neighbors == GetNeighbors(links)
             early == FailureBeforeLoop(overload_kw, neighbors)
             candidates == CandidatePlans(neighbors, transformer, forecast, assessment,
                                          latest_temp, links, up)
         IN  /\ max_plans' = n
             /\ IF early # ""
                THEN /\ plan_result' = "ValueError" /\ plan_error' = early
                     /\ UNCHANGED <<candidate_plans, returned_plans, saved_plans>>
                ELSE IF candidates = <<>>
                THEN /\ plan_result' = "ValueError" /\ plan_error' = ErrNoViablePlan
                     /\ UNCHANGED <<candidate_plans, returned_plans, saved_plans>>
                ELSE /\ plan_result' = "ok" /\ plan_error' = ""
                     /\ candidate_plans' = candidates
                     /\ returned_plans' = TopPlans(RankPlans(candidates), n)
                     /\ saved_plans' = saved_plans \o TopPlans(RankPlans(candidates), n)
    /\ UNCHANGED <<assessments, scorerVars, narratorVars, bulkVars, riskVars, opsVars,
                   forecasterVars, safety_margin>>

\* A newer TransformerLoad row with a temperature arrives for the unit after it
\* was scored.
RecordTemperature ==
    /\ score_result = "ok"
    /\ plan_result = "none"
    /\ latest_temp # [has |-> TRUE, temp_c |-> 4000]
    /\ latest_temp' = [has |-> TRUE, temp_c |-> 4000]
    /\ UNCHANGED <<transformer, forecast, links, components, score_result, assessments,
                   narratorVars, bulkVars, riskVars, opsVars, forecasterVars, plannerVars>>

\* The first tie line of the unit is taken out of service after the unit was scored.
DeactivateLink ==
    /\ score_result = "ok"
    /\ plan_result = "none"
    /\ links # <<>>
    /\ links[1].is_active
    /\ links' = [links EXCEPT ![1].is_active = FALSE]
    /\ UNCHANGED <<transformer, forecast, latest_temp, components, score_result, assessments,
                   narratorVars, bulkVars, riskVars, opsVars, forecasterVars, plannerVars>>

\* ---- inputs of the simulator
PlannedUnit == [age |-> 10, cooling_type |-> "ONAN", rated_kw |-> 225000, max_load_pct |-> 90]

PeakInputs == {202500, 252490, 252500, 280060, 300000}

PlannedForecasts ==
    {[predictions |-> 72, peak_predicted_kw |-> p,
      peak_predicted_pct |-> RoundTie(2 * p, 45, TRUE)] : p \in PeakInputs}

N_Big == Neighbor(225000, 90, Load(100000, 4444), NoForecast)
N_Round == Neighbor(225000, 90, Load(132430, 5886), NoForecast)
N_Small == Neighbor(225000, 90, Load(152510, 6778), NoForecast)
N_Edge == Neighbor(225000, 90, Load(152500, 6778), NoForecast)
N_Forecast == Neighbor(225000, 90, NoLoad, [has |-> TRUE, peak_predicted_kw |-> 120000])
N_NoData == Neighbor(225000, 90, NoLoad, NoForecast)
N_Over == Neighbor(225000, 90, Load(210000, 9333), NoForecast)

PlannedLinks ==
    {Link(TRUE, 100000, TRUE, N_Big), Link(TRUE, 60000, TRUE, N_Big),
     Link(TRUE, 40000, FALSE, N_Big), Link(FALSE, 100000, TRUE, N_Big),
     Link(TRUE, 100000, TRUE, N_Round), Link(TRUE, 100000, TRUE, N_Small),
     Link(TRUE, 100000, FALSE, N_Edge), Link(TRUE, 100000, TRUE, N_Forecast),
     Link(TRUE, 100000, TRUE, N_NoData), Link(TRUE, 100000, TRUE, N_Over)}

InitPlanner ==
    /\ transformer = PlannedUnit
    /\ forecast \in PlannedForecasts
    /\ latest_temp = [has |-> TRUE, temp_c |-> 3000]
    /\ links \in SeqsUpTo(PlannedLinks, MaxLinks)
    /\ components = [overload |-> 0, thermal |-> 0, cascading |-> 0]
    /\ score_result = "none"
    /\ assessments = <<>>
    /\ PlannerIdle
    /\ NarratorIdle
    /\ BulkIdle
    /\ RiskIdle
    /\ OpsIdle
    /\ ForecasterIdle

NextPlanner ==
    ScoreTransformerFromTelemetry \/ RecordTemperature \/ DeactivateLink \/ GeneratePlans

SpecPlanner == InitPlanner /\ [][NextPlanner]_vars

\* ---- the simulator constructed with another safety_margin
\* safety_margin values up to 1.0, in tenths.
SafetyMargins == {0, 5, SafetyMarginTenths, 10}

N_Fine == Neighbor(112500, 85, Load(40000, 3556), NoForecast)

MarginLinks ==
    {Link(TRUE, 100000, TRUE, N_Round), Link(TRUE, 100000, TRUE, N_Fine),
     Link(TRUE, 100000, FALSE, N_Forecast), Link(TRUE, 100000, TRUE, N_NoData),
     Link(TRUE, 60000, TRUE, N_Over)}

InitMargins ==
    /\ transformer = PlannedUnit
    /\ forecast \in PlannedForecasts
    /\ latest_temp = [has |-> TRUE, temp_c |-> 3000]
    /\ links \in SeqsUpTo(MarginLinks, MaxLinks)
    /\ components = [overload |-> 0, thermal |-> 0, cascading |-> 0]
    /\ score_result = "none"
    /\ assessments = <<>>
    /\ safety_margin \in SafetyMargins
    /\ max_plans = 3 /\ plan_result = "none" /\ plan_error = ""
    /\ candidate_plans = <<>> /\ returned_plans = <<>> /\ saved_plans = <<>>
    /\ NarratorIdle
    /\ BulkIdle
    /\ RiskIdle
    /\ OpsIdle
    /\ ForecasterIdle

SpecMargins == InitMargins /\ [][NextPlanner]_vars

\* The overload of the unit and the transfer a link allows, from the stored rows.
PlannedOverload ==
    forecast.peak_predicted_kw - (transformer.rated_kw * transformer.max_load_pct) \div 100

Skipped(i) ==
    LET available == GetAvailableCapacity(links[i].to)
    IN  \/ available < 50000
        \/ PlannedOverload < 50000
        \/ links[i].max_transfer_kw < 50000
        \/ 8 * available < 10 * 50000
        \/ 3 * forecast.peak_predicted_kw < 10 * 50000

ActiveLinks == {i \in 1..Len(links) : links[i].is_active}

C13_TransferWithinLimits ==
    plan_result = "ok" =>
        /\ \A j \in 1..Len(candidate_plans) :
             LET plan == candidate_plans[j]
                 link == links[plan.link]
                 available == GetAvailableCapacity(link.to)
                 t == plan.expected_load_reduction_kw
             IN  /\ link.is_active
                 /\ 50000 <= t
                 /\ t <= PlannedOverload
                 /\ t <= link.max_transfer_kw
                 /\ 10 * t <= 8 * available
                 /\ 10 * t <= 3 * forecast.peak_predicted_kw
                 /\ \/ t = PlannedOverload \/ t = link.max_transfer_kw
                    \/ 10 * t = 8 * available \/ 10 * t = 3 * forecast.peak_predicted_kw
                 /\ plan.plan_json.transfer_kw - t <= 5
                 /\ t - plan.plan_json.transfer_kw <= 5
        /\ \A i \in 1..Len(links) :
             (~links[i].is_active \/ Skipped(i)) =>
                 \A j \in 1..Len(candidate_plans) : candidate_plans[j].link # i
        /\ \A j \in 1..Len(returned_plans) :
             \E m \in 1..Len(candidate_plans) : returned_plans[j] = candidate_plans[m]

C13_Witness ==
    /\ plan_result = "ok"
    /\ Len(returned_plans) = 2
    /\ \E j \in 1..2 :
         /\ returned_plans[j].expected_load_reduction_kw = 56056
         /\ returned_plans[j].plan_json.transfer_kw = 56060
         /\ GetAvailableCapacity(links[returned_plans[j].link].to) = 70070
    /\ \E i \in ActiveLinks : Skipped(i)

\* C14: the list generate_plans returns is sorted by risk_reduction descending,
\* plans with equal risk_reduction stand in link-iteration order, and it is exactly
\* the first min(max_plans, number of surviving candidates) plans of that order.
C14_RankedTopPlans ==
    plan_result = "ok" =>
        LET rr(plan) == plan.plan_json.risk_reduction
            before(a, b) == rr(a) > rr(b) \/ (rr(a) = rr(b) /\ a.link < b.link)
            chosen == {returned_plans[j].link : j \in 1..Len(returned_plans)}
        IN  /\ Len(returned_plans) = Min(max_plans, Len(candidate_plans))
            /\ \A j \in 1..Len(returned_plans) :
                 \E m \in 1..Len(candidate_plans) : returned_plans[j] = candidate_plans[m]
            /\ \A i, j \in 1..Len(returned_plans) :
                 i < j => before(returned_plans[i], returned_plans[j])
            /\ \A m \in 1..Len(candidate_plans) :
                 candidate_plans[m].link \notin chosen =>
                     \A j \in 1..Len(returned_plans) :
                         before(returned_plans[j], candidate_plans[m])
            /\ \A m, n \in 1..Len(candidate_plans) :
                 m < n => candidate_plans[m].link < candidate_plans[n].link

C14_Witness ==
    /\ plan_result = "ok"
    /\ max_plans = 2
    /\ Len(candidate_plans) = 3
    /\ candidate_plans[1].plan_json.risk_reduction
         < candidate_plans[2].plan_json.risk_reduction
    /\ candidate_plans[2].plan_json.risk_reduction
         = candidate_plans[3].plan_json.risk_reduction
    /\ returned_plans = <<candidate_plans[2], candidate_plans[3]>>

\* The overload score of a peak of n against a rating of r, times k = r / 25 kW, in
\* millionths, from the points of the methodology: 0 up to 90%, the line from 0.3
\* at 90% to 0.7 at 100%, the line from 0.7 at 100% to 1.0 at 120%, 1.0 above.
OverloadOfPeak(n, r) ==
    LET k == r \div 25000
    IN  IF 100 * n <= 90 * r THEN 0
        ELSE IF n <= r THEN 300000 * k + (8 * (100 * n - 90 * r)) \div 5
        ELSE Min(700000 * k + (3 * (100 * n - 100 * r)) \div 5, 1000000 * k)

\* Whether risk is 0.6 * overload + 0.2 * thermal + 0.2 * cascading to three
\* decimals, for the overload score of the peak reduced by the plan's transfer.
RiskAfterIs(plan, thermal, cascading) ==
    LET k == transformer.rated_kw \div 25000
        exact == 6 * OverloadOfPeak(forecast.peak_predicted_kw
                                      - plan.expected_load_reduction_kw,
                                    transformer.rated_kw)
                 + k * (2 * thermal + 2 * cascading)
        kept == plan.plan_json.risk_after * 10000 * k
    IN  kept - exact <= 5000 * k /\ exact - kept <= 5000 * k

Users == {"operator"}
Notes == {"", "done"}
Reasons == {"", "unsafe"}

RECURSIVE DigitsOf(_)
DigitsOf(n) == IF n < 10 THEN <<n>> ELSE Append(DigitsOf(n \div 10), n % 10)

RECURSIVE ZeroPad(_, _)
ZeroPad(d, width) == IF Len(d) >= width THEN d ELSE ZeroPad(<<0>> \o d, width)

\* f'WO-{year}-{new_num:04d}': the year and the digits of the number.
WoNumber(y, n) == [prefix |-> y, digits |-> ZeroPad(DigitsOf(n), 4)]

\* int(last_wo.wo_number.split('-')[-1])
RECURSIVE ParseInt(_)
ParseInt(d) == IF d = <<>> THEN 0 ELSE 10 * ParseInt(SubSeq(d, 1, Len(d) - 1)) + d[Len(d)]

\* String order of two digit strings, as order_by('-wo_number') compares them.
RECURSIVE StrLess(_, _)
StrLess(a, b) ==
    IF a = <<>> THEN b # <<>>
    ELSE IF b = <<>> THEN FALSE
    ELSE IF a[1] # b[1] THEN a[1] < b[1]
    ELSE StrLess(Tail(a), Tail(b))

\* WorkOrder._generate_wo_number
GenerateWoNumber(rows, y) ==
    LET same_year == {i \in 1..Len(rows) : rows[i].wo_number.prefix = y}
    IN  IF same_year = {} THEN WoNumber(y, 1)
        ELSE LET last_wo == CHOOSE i \in same_year :
                               \A j \in same_year :
                                  ~StrLess(rows[i].wo_number.digits, rows[j].wo_number.digits)
             IN  WoNumber(y, ParseInt(rows[last_wo].wo_number.digits) + 1)

\* A wo_number column without the unique constraint.
NumberTaken_NoConstraint(rows, number) == FALSE

\* The unique constraint on wo_number.
NumberTaken(rows, number) == \E i \in 1..Len(rows) : rows[i].wo_number = number

NewWorkOrder(plan_id, number) ==
    [plan |-> plan_id, wo_number |-> number, status |-> "OPEN", started_at |-> "",
     completed_at |-> "", outcome_notes |-> ""]

Respond(view, target, code) == [view |-> view, target |-> target, code |-> code]

\* MitigationPlanViewSet.approve: both values of the request's action field.
Approve ==
    /\ \E p \in PlanIds, action_type \in {"approve", "reject"}, reason \in Reasons :
         IF action_type = "approve"
         THEN IF plans[p].status = "APPROVED"
              THEN plans' = plans /\ response' = Respond("approve", p, 400)
              ELSE /\ \E user \in Users :
                        plans' = [plans EXCEPT ![p].status = "APPROVED",
                                               ![p].approved_by = user,
                                               ![p].approved_at = "now"]
                   /\ response' = Respond("approve", p, 200)
         ELSE IF reason = ""
              THEN plans' = plans /\ response' = Respond("reject", p, 400)
              ELSE /\ plans' = [plans EXCEPT ![p].status = "REJECTED",
                                             ![p].rejection_reason = reason]
                   /\ response' = Respond("reject", p, 200)
    /\ UNCHANGED <<work_orders, wo_pending, year, assessments, forecasts, max_retries, enabled,
                   enh_pc, enh_plan, attempt, callLog, apiCalls, outcome, accepted, runs,
                   bulkVars, riskVars, scorerVars, forecasterVars, plannerVars>>

\* An execute view without the status test.
ExecuteAllowed_AnyStatus(plan) == TRUE

\* if plan.status != 'APPROVED': 400; if plan.is_executed: 400
ExecuteAllowed(plan) == plan.status = "APPROVED" /\ ~(plan.status = "EXECUTED")

\* MitigationPlanViewSet.execute
Execute ==
    /\ \E p \in PlanIds, notes \in Notes, user \in Users :
         IF ExecuteAllowed(plans[p])
         THEN /\ plans' = [plans EXCEPT ![p].status = "EXECUTED",
                                        ![p].executed_by = user,
                                        ![p].executed_at = "now",
                                        ![p].execution_notes = notes]
              /\ response' = Respond("execute", p, 200)
         ELSE plans' = plans /\ response' = Respond("execute", p, 400)
    /\ UNCHANGED <<work_orders, wo_pending, year, assessments, forecasts, max_retries, enabled,
                   enh_pc, enh_plan, attempt, callLog, apiCalls, outcome, accepted, runs,
                   bulkVars, riskVars, scorerVars, forecasterVars, plannerVars>>

PendingCount == Cardinality({c \in Creators : wo_pending[c].pc # "idle"})

\* WorkOrderViewSet.create up to the number WorkOrder.save has generated: the
\* plan's status test, then _generate_wo_number reads the last number.
CreateBegin ==
    /\ Len(work_orders) + PendingCount < MaxConcurrentOrders
    /\ \E c \in Creators, p \in PlanIds :
         /\ wo_pending[c].pc = "idle"
         /\ IF plans[p].status # "APPROVED"
            THEN /\ wo_pending' = wo_pending
                 /\ response' = Respond("create", p, 400)
            ELSE /\ wo_pending' = [wo_pending EXCEPT ![c] =
                                     [pc |-> "numbered", plan |-> p,
                                      wo_number |-> GenerateWoNumber(work_orders, year)]]
                 /\ response' = response
    /\ UNCHANGED <<work_orders, year, assessments, narratorVars, bulkVars, riskVars, scorerVars,
                   forecasterVars, plannerVars>>

\* super().save(): the insert, refused by the unique constraint when the number is
\* taken (IntegrityError, answered with 500); then the audit row and the response.
CreateInsert ==
    /\ \E c \in Creators :
         /\ wo_pending[c].pc = "numbered"
         /\ IF NumberTaken(work_orders, wo_pending[c].wo_number)
            THEN /\ work_orders' = work_orders
                 /\ response' = Respond("create", wo_pending[c].plan, 500)
            ELSE /\ work_orders' = Append(work_orders,
                                          NewWorkOrder(wo_pending[c].plan,
                                                       wo_pending[c].wo_number))
                 /\ response' = Respond("create", wo_pending[c].plan, 201)
         /\ wo_pending' = [wo_pending EXCEPT ![c] = NoPending]
    /\ UNCHANGED <<year, assessments, narratorVars, bulkVars, riskVars, scorerVars,
                   forecasterVars, plannerVars>>

\* A start view that also restarts a work order in progress.
StartAllowed_AlsoInProgress(wo) == wo.status \in {"OPEN", "IN_PROGRESS"}

\* if work_order.status != 'OPEN': 400
StartAllowed(wo) == wo.status = "OPEN"

\* WorkOrderViewSet.start
Start ==
    /\ \E i \in 1..Len(work_orders) :
         IF StartAllowed(work_orders[i])
         THEN /\ work_orders' = [work_orders EXCEPT ![i].status = "IN_PROGRESS",
                                                    ![i].started_at = "now"]
              /\ response' = Respond("start", i, 200)
         ELSE work_orders' = work_orders /\ response' = Respond("start", i, 400)
    /\ UNCHANGED <<wo_pending, year, assessments, narratorVars, bulkVars, riskVars, scorerVars,
                   forecasterVars, plannerVars>>

\* WorkOrderViewSet.complete: the work order, then its plan.
Complete ==
    /\ \E i \in 1..Len(work_orders), outcome_notes \in Notes, user \in Users :
         IF work_orders[i].status \notin {"OPEN", "IN_PROGRESS"} \/ outcome_notes = ""
         THEN /\ work_orders' = work_orders
              /\ plans' = plans
              /\ response' = Respond("complete", i, 400)
         ELSE /\ work_orders' = [work_orders EXCEPT ![i].status = "COMPLETED",
                                                    ![i].completed_at = "now",
                                                    ![i].outcome_notes = outcome_notes]
              /\ plans' = [plans EXCEPT ![work_orders[i].plan].status = "EXECUTED",
                                        ![work_orders[i].plan].executed_at = "now",
                                        ![work_orders[i].plan].executed_by = user,
                                        ![work_orders[i].plan].execution_notes = outcome_notes]
              /\ response' = Respond("complete", i, 200)
    /\ UNCHANGED <<wo_pending, year, assessments, forecasts, max_retries, enabled,
                   enh_pc, enh_plan, attempt, callLog, apiCalls, outcome, accepted, runs,
                   bulkVars, riskVars, scorerVars, forecasterVars, plannerVars>>

\* PATCH /workorders/{id}/ with status CANCELLED: status is a writable field.
Cancel ==
    /\ \E i \in 1..Len(work_orders) :
         /\ work_orders[i].status \in {"OPEN", "IN_PROGRESS"}
         /\ work_orders' = [work_orders EXCEPT ![i].status = "CANCELLED"]
         /\ response' = Respond("update", i, 200)
    /\ UNCHANGED <<wo_pending, year, assessments, narratorVars, bulkVars, riskVars, scorerVars,
                   forecasterVars, plannerVars>>

\* The calendar year changes.
YearTurns ==
    /\ year < MaxYear
    /\ year' = year + 1
    /\ UNCHANGED <<work_orders, wo_pending, response, assessments, narratorVars, bulkVars,
                   riskVars, scorerVars, forecasterVars, plannerVars>>

\* WorkOrderViewSet.create served without another request in between.
Create ==
    /\ Len(work_orders) < MaxWorkOrders
    /\ \E p \in PlanIds :
         IF plans[p].status # "APPROVED"
         THEN work_orders' = work_orders /\ response' = Respond("create", p, 400)
         ELSE LET number == GenerateWoNumber(work_orders, year)
              IN  IF NumberTaken(work_orders, number)
                  THEN work_orders' = work_orders /\ response' = Respond("create", p, 500)
                  ELSE /\ work_orders' = Append(work_orders, NewWorkOrder(p, number))
                       /\ response' = Respond("create", p, 201)
    /\ UNCHANGED <<wo_pending, year, assessments, narratorVars, bulkVars, riskVars, scorerVars,
                   forecasterVars, plannerVars>>

InitOps ==
    /\ plans = [p \in PlanIds |-> NewPlan(PJ_T07, "DRAFT")]
    /\ forecasts = <<[peak_predicted_pct |-> 11537, peak_predicted_kw |-> 519170]>>
    /\ max_retries = 0 /\ enabled = FALSE /\ enh_pc = "idle" /\ enh_plan = 1
    /\ attempt = 0 /\ callLog = <<>> /\ apiCalls = 0 /\ outcome = "NONE"
    /\ accepted = NoJson /\ runs = 0
    /\ assessments = <<[risk_score |-> 712, risk_level |-> "HIGH"]>>
    /\ OpsIdle
    /\ BulkIdle
    /\ RiskIdle
    /\ ScorerIdle
    /\ ForecasterIdle
    /\ PlannerIdle

NextOps == Approve \/ Execute \/ Create \/ Start \/ Complete \/ Cancel

SpecOps == InitOps /\ [][NextOps]_vars

\* Work orders created by concurrent requests for approved plans, over a new year.
InitNumbering ==
    /\ plans = [p \in PlanIds |-> NewPlan(PJ_T07, "APPROVED")]
    /\ forecasts = <<[peak_predicted_pct |-> 11537, peak_predicted_kw |-> 519170]>>
    /\ max_retries = 0 /\ enabled = FALSE /\ enh_pc = "idle" /\ enh_plan = 1
    /\ attempt = 0 /\ callLog = <<>> /\ apiCalls = 0 /\ outcome = "NONE"
    /\ accepted = NoJson /\ runs = 0
    /\ assessments = <<[risk_score |-> 712, risk_level |-> "HIGH"]>>
    /\ OpsIdle
    /\ BulkIdle
    /\ RiskIdle
    /\ ScorerIdle
    /\ ForecasterIdle
    /\ PlannerIdle

NextNumbering == CreateBegin \/ CreateInsert \/ Cancel \/ YearTurns

SpecNumbering == InitNumbering /\ [][NextNumbering]_vars

\* C24: an execute request changes the plan's status to EXECUTED only when the
\* status is APPROVED; for a plan in any other status (DRAFT, REJECTED, EXECUTED) it
\* answers with an error and leaves every field of the plan unchanged.  No other
\* plan and no work order changes either way.
C24_ExecuteOnlyApproved ==
    [][response'.view = "execute" =>
          LET p == response'.target
          IN  /\ work_orders' = work_orders
              /\ \A q \in PlanIds \ {p} : plans'[q] = plans[q]
              /\ IF plans[p].status = "APPROVED"
                 THEN response'.code = 200 /\ plans'[p].status = "EXECUTED"
                 ELSE response'.code = 400 /\ plans'[p] = plans[p]]_vars

C24_Witness ==
    /\ response = [view |-> "execute", target |-> 1, code |-> 400]
    /\ plans[1].status = "EXECUTED"
    /\ plans[1].executed_at = "now"
    /\ plans[1].execution_notes = ""
    /\ plans[2].status = "REJECTED"

\* C25: a start request succeeds only on an OPEN work order and makes it
\* IN_PROGRESS; a complete request succeeds only on an OPEN or IN_PROGRESS work
\* order and only with non-empty outcome_notes, and makes it COMPLETED; a rejected
\* start or complete leaves every work order and every plan unchanged.  So the
\* two requests move a status forward only.
C25_WorkOrderForwardOnly ==
    [][response'.view \in {"start", "complete"} =>
          LET i == response'.target
              before == work_orders[i]
              after == work_orders'[i]
          IN  /\ Len(work_orders') = Len(work_orders)
              /\ \A j \in (1..Len(work_orders)) \ {i} : work_orders'[j] = work_orders[j]
              /\ IF response'.code = 200
                 THEN IF response'.view = "start"
                      THEN before.status = "OPEN" /\ after.status = "IN_PROGRESS"
                      ELSE /\ before.status \in {"OPEN", "IN_PROGRESS"}
                           /\ after.status = "COMPLETED"
                           /\ after.outcome_notes # ""
                 ELSE /\ response'.code = 400
                      /\ work_orders' = work_orders
                      /\ plans' = plans
              /\ (response'.view = "start" /\ before.status # "OPEN") => response'.code = 400
              /\ (response'.view = "complete" /\ before.status \notin {"OPEN", "IN_PROGRESS"})
                    => response'.code = 400]_vars

C25_Witness ==
    /\ response = [view |-> "start", target |-> 1, code |-> 400]
    /\ Len(work_orders) = 1
    /\ work_orders[1].status = "COMPLETED"
    /\ work_orders[1].started_at = ""
    /\ work_orders[1].outcome_notes = "done"

NumberOf(wo) == ParseInt(wo.wo_number.digits)

\* C26: the stored work orders carry pairwise different numbers, and each carries
\* WO-<year>-<n> with at least four digits, where n is one more than the highest
\* number stored for that year before it (1 if there was none); this stays so when
\* two creations read the last number before either of them inserts.
C26_UniqueWoNumbers ==
    /\ \A i, j \in 1..Len(work_orders) :
          i # j => work_orders[i].wo_number # work_orders[j].wo_number
    /\ \A i \in 1..Len(work_orders) :
          LET wo == work_orders[i]
              earlier == {j \in 1..(i - 1) :
                            work_orders[j].wo_number.prefix = wo.wo_number.prefix}
          IN  /\ wo.wo_number.prefix <= year
              /\ wo.wo_number = WoNumber(wo.wo_number.prefix, NumberOf(wo))
              /\ Len(wo.wo_number.digits) >= 4
              /\ IF earlier = {} THEN NumberOf(wo) = 1
                 ELSE /\ \A j \in earlier : NumberOf(work_orders[j]) < NumberOf(wo)
                      /\ \E j \in earlier : NumberOf(work_orders[j]) + 1 = NumberOf(wo)

C26_Witness ==
    /\ response.view = "create" /\ response.code = 500
    /\ Len(work_orders) = 1
    /\ work_orders[1].wo_number = WoNumber(2026, 1)
    /\ \A c \in Creators : wo_pending[c].pc = "idle"

\* C30: whatever approve, reject, execute and work-order requests are served, a
\* plan becomes EXECUTED only from APPROVED: no plan that is DRAFT or REJECTED
\* before a request is EXECUTED after it.
C30_ExecutedOnlyFromApproved ==
    [][\A p \in PlanIds :
          plans[p].status \in {"DRAFT", "REJECTED"} => plans'[p].status # "EXECUTED"]_vars

\* C29: in plan_all_high_risk an assessment recorded in the failed list has none of
\* its plans stored.
C29_FailedAssessmentStoresNoPlan ==
    bulk_op.name = "plan_all_high_risk" =>
        \A k \in 1..Len(failed) : \A row \in stored : row.pos # failed[k].pos

\* C27: every plan generate_plans returns has risk_after <= risk_before, that is
\* risk_reduction >= 0, also when readings arrived or links changed after the
\* assessment was scored.
C27_RiskNeverRises ==
    \A i \in 1..Len(returned_plans) :
        /\ returned_plans[i].expected_risk_after <= returned_plans[i].plan_json.risk_before
        /\ returned_plans[i].plan_json.risk_reduction >= 0

\* C28: no returned plan pushes the receiving unit past its safe limit, whatever
\* safety_margin <= 1 the simulator was built with: the neighbour's current load
\* (its latest reading, else its latest forecast peak, else 70% of its rating) plus
\* the transfer the plan computed is at most rated_kw * max_load_pct / 100, and so
\* is the two-decimal figure plan_json records when safety_margin is below 1.
NeighborCurrentLoad(nbr) ==
    IF nbr.latest_load.has THEN nbr.latest_load.load_kw
    ELSE IF nbr.latest_forecast.has THEN nbr.latest_forecast.peak_predicted_kw
    ELSE (7 * nbr.rated_kw) \div 10

====
